---- MODULE Spec2Model ----
(***************************************************************************)
(* A model of the freshservice batch tooling:                              *)
(*   - RateLimitController  (freshservice_api/rate_limit_controller.py)    *)
(*   - FreshserviceApi._request (freshservice_api/freshservice_api.py)     *)
(*   - BaseBatchProcessor and its two strategies                           *)
(*     (freshservice_api/base_batch_processor.py,                          *)
(*      batch_ticket_category_updater.py, batch_ticket_importer.py)        *)
(*                                                                         *)
(* Time is counted in whole seconds.  The controller's absolute time       *)
(* stamps are kept relative to "now": since_last_request is                *)
(* now - last_request_timestamp and pause_left is                          *)
(* retry_after_timestamp - now (0 once the stamp lies in the past).        *)
(***************************************************************************)
EXTENDS Integers, Naturals, Sequences, FiniteSets, TLC

(***************************************************************************)
(* Bounds of the model                                                     *)
(***************************************************************************)
\* callers of the controller and of the client, and the default pool of run()
NumThreads == 2
\* worker loops a processor has room for
NumWorkers == 3
MaxHeadroom == 1
MaxRemaining == 4
MaxRetryAfter == 3
MaxRetriesBound == 2
NumRows == 3
SmallLimit == 1
MaxRuns == 2
\* distinct category names in the store
NumNames == 1

(***************************************************************************)
(* Program constants                                                       *)
(***************************************************************************)
InitialRatelimit == 160
SecondsPerWindow == 60
BrakingFactor == 3
MinProbeWait == 1
MaxProbeWait == 60
\* def _request(self, method, path, max_retries=5, **kwargs)
DefaultMaxRetries == 5
NoTimeout == -1
\* self.retry_after_until = None
NoDeadline == -1

Threads == 1..NumThreads
Workers == 1..NumWorkers
Headrooms == {0, MaxHeadroom}
\* x-ratelimit-total values the server advertises in the model; each divides
\* SecondsPerWindow or exceeds it, so max(1.0, 60 / total) is a whole number.
Totals == {30, InitialRatelimit}
Remainings == 0..MaxRemaining
RetryAfters == 1..MaxRetryAfter
\* headers.get(...) is None
Absent == -1
\* a header value that int() does not parse
Malformed == -2
\* Python's None and SQL's NULL
None == -1
NULL == -1
\* no connection holds the write lock; no row
NoWorker == 0
NoRow == 0
Rows == 1..NumRows
\* update_state of a row prepare() has not classified: SQL NULL in a TEXT column
NullState == "null"
\* error_message = str(e): the text of the exception
ExceptionText == 1
\* error_message = json.dumps(e.response.json()), or e.response.text: the
\* body of the response
ResponseBody == 2
\* datetime.datetime.now(): some moment
Timestamp == 1
\* the empty string in a TEXT column: not NULL, and falsy in Python
EmptyText == 0
\* category names, and the values of a TEXT column holding one
Names == 1..NumNames
TextValues == {NULL, EmptyText} \cup Names

Max(a, b) == IF a >= b THEN a ELSE b
Min(a, b) == IF a <= b THEN a ELSE b
CeilDiv(a, b) == (a + b - 1) \div b

\* Longest pacing interval the model can require: base interval at the smallest
\* total times a braking multiplier below BrakingFactor.
SinceCap == CeilDiv(SecondsPerWindow * BrakingFactor, 30)

VARIABLES
    \* RateLimitController fields
    headroom,
    server_ratelimit_remaining,
    server_ratelimit_total,
    requests_in_flight,
    since_last_request,
    pause_left,
    probe_wait_seconds,
    probe_scheduled,
    \* threads that may use the controller: position, timeout left, pending
    \* wake-up
    tpc,
    timer,
    notified,
    \* what each in-flight thread saw when it was admitted
    adm,
    \* seconds left until the latest t + k over every Retry-After: k ingested at t
    ra_left,
    \* FreshserviceApi fields shared by its callers
    rate_limit_hit,
    retry_after_until,
    \* one _request call per thread: position, parameters and locals, HTTP calls
    \* issued, 429 answers received, status of the latest response, outcome
    cpc,
    max_retries,
    attempts,
    sleep_left,
    http_calls,
    answers_429,
    response_status,
    outcome,
    \* the processor's configuration: which strategy it is and self.random_order
    strategy,
    random_order,
    \* the tickets table, and the connection holding SQLite's write lock
    tickets,
    db_lock,
    \* BaseBatchProcessor fields
    iteration_count,
    iteration_limit,
    success_count,
    failure_count,
    \* run(): whether it is under way, how many were started, its arguments
    running,
    runs,
    run_limit,
    \* _worker_loop per thread: position and ticket_row
    wpc,
    ticket_row,
    \* per run: rows that were ready when it started, claims and API actions
    \* per row, and per worker the stored row as it was when the claim marked it
    ready_at_start,
    claims,
    sent,
    \* rows whose API action has returned a success response, in any run
    accepted,
    claimed_from,
    \* retry_failed(): the row count of its UPDATE, while the call lasts
    quantity_to_retry,
    \* the category columns of the tickets table, by row id, where the
    \* specification reads them
    categories,
    \* the tables valid_categories and category_mappings
    valid_categories,
    category_mappings,
    \* _perform_api_action of the update strategy: the id and the
    \* ticket_update_payload of the request it built last
    ticket_update_payload

ctlVars == <<headroom, server_ratelimit_remaining, server_ratelimit_total,
             requests_in_flight, since_last_request, pause_left,
             probe_wait_seconds, probe_scheduled, tpc, timer, notified, adm,
             ra_left>>

apiVars == <<rate_limit_hit, retry_after_until, cpc, max_retries, attempts,
             sleep_left, http_calls, answers_429, response_status, outcome>>

prepVars == <<categories, valid_categories, category_mappings,
              ticket_update_payload>>

procVars == <<strategy, random_order, tickets, db_lock, iteration_count,
              iteration_limit, success_count, failure_count, running, runs,
              run_limit, wpc, ticket_row, ready_at_start, claims, sent, accepted, claimed_from,
              quantity_to_retry, prepVars>>

vars == <<ctlVars, apiVars, procVars>>

WaitStates == {"wait_pause", "wait_pace", "wait_indef", "wait_probe"}
\* kind of admission, and what held when it was granted: low (effective remaining
\* <= 0), near (effective remaining <= headroom), alone (nothing else in flight),
\* paused (retry_after_timestamp in the future), early (inside some t + k window)
NoAdm == [kind |-> "none", low |-> FALSE, near |-> FALSE, alone |-> FALSE,
          paused |-> FALSE, early |-> FALSE]

(***************************************************************************)
(* RateLimitController                                                     *)
(***************************************************************************)
\* RateLimitController.__init__
CtlConstructed ==
    /\ headroom \in Headrooms
    /\ server_ratelimit_remaining = InitialRatelimit
    /\ server_ratelimit_total = InitialRatelimit
    /\ requests_in_flight = 0
    /\ since_last_request = SinceCap
    /\ pause_left = 0
    /\ probe_wait_seconds = MinProbeWait
    /\ probe_scheduled = FALSE
    /\ tpc = [t \in Workers |-> "out"]
    /\ timer = [t \in Workers |-> NoTimeout]
    /\ notified = [t \in Workers |-> FALSE]
    /\ adm = [t \in Workers |-> NoAdm]
    /\ ra_left = 0

\* FreshserviceApi.__init__, with no _request call under way
ApiConstructed ==
    /\ rate_limit_hit = FALSE
    /\ retry_after_until = NoDeadline
    /\ cpc = [c \in Threads |-> "idle"]
    /\ max_retries = [c \in Threads |-> 0]
    /\ attempts = [c \in Threads |-> 0]
    /\ sleep_left = [c \in Threads |-> 0]
    /\ http_calls = [c \in Threads |-> 0]
    /\ answers_429 = [c \in Threads |-> 0]
    /\ response_status = [c \in Threads |-> None]
    /\ outcome = [c \in Threads |-> "none"]

\* A row of the tickets table as create_tables and the inserts leave it.  The
\* create strategy has no update_state column; the field stays NULL there.
FreshRow(state) ==
    [update_state |-> state, request_timestamp |-> NULL,
     response_status_code |-> NULL, error_message |-> NULL]

\* update_state values prepare() leaves behind
PreparedStates == {"ready", "skipped", "unmapped"}

\* no request built yet
NoPayload == [id |-> NoRow, body |-> {}]

\* BaseBatchProcessor.__init__, no run() under way
ProcConstructed ==
    /\ db_lock = NoWorker
    /\ iteration_count = 0
    /\ iteration_limit = None
    /\ success_count = 0
    /\ failure_count = 0
    /\ running = FALSE
    /\ runs = 0
    /\ run_limit = None
    /\ wpc = [w \in Workers |-> "idle"]
    /\ ticket_row = [w \in Workers |-> NoRow]
    /\ ready_at_start = {}
    /\ claims = [r \in Rows |-> 0]
    /\ sent = [r \in Rows |-> 0]
    /\ accepted = {}
    /\ claimed_from = [w \in Workers |-> FreshRow(NullState)]
    /\ quantity_to_retry = None
    /\ ticket_update_payload = NoPayload

\* the category columns of a ticket, with no target categories yet
Uncategorised(category, sub_category, item_category) ==
    [category |-> category, sub_category |-> sub_category,
     item_category |-> item_category, new_category |-> NULL,
     new_sub_category |-> NULL, new_item_category |-> NULL]

\* The store with its category columns left out and its lookup tables empty:
\* where the API action is taken by its result, nothing reads them.
NoCategories ==
    /\ categories = <<>>
    /\ valid_categories = {}
    /\ category_mappings = {}

\* a store no processor is attached to
NoStore ==
    /\ strategy = "update"
    /\ random_order = FALSE
    /\ tickets = [r \in Rows |-> FreshRow(NullState)]
    /\ NoCategories

InitCtl == CtlConstructed /\ ApiConstructed /\ ProcConstructed /\ NoStore

\* now < self.retry_after_timestamp
Paused == pause_left > 0

\* ratelimit_remaining = server_ratelimit_remaining - requests_in_flight
EffectiveRemaining == server_ratelimit_remaining - requests_in_flight

\* Faulty variant: the regime test off by one.
NormalRegimeOffByOne(eff) == eff >= headroom

\* if ratelimit_remaining > self.headroom
NormalRegime(eff) == eff > headroom

\* max(1.0, base_interval_seconds), base_interval_seconds = 60.0 / total
ProbeWaitReset(total) == Max(MinProbeWait, SecondsPerWindow \div total)

\* required_interval_seconds = base_interval_seconds * interval_multiplier, kept as
\* the fraction IntervalNum / IntervalDen
braking_threshold == headroom * BrakingFactor
IntervalNum(eff) ==
    IF eff > braking_threshold THEN SecondsPerWindow
    ELSE SecondsPerWindow * braking_threshold
IntervalDen(eff) ==
    IF eff > braking_threshold THEN server_ratelimit_total
    ELSE server_ratelimit_total * Max(1, eff)

\* Faulty variant: the interval without the braking multiplier.
MustPaceWithoutBraking(eff) ==
    since_last_request * server_ratelimit_total < SecondsPerWindow

\* if seconds_since_last_request < required_interval_seconds
MustPace(eff) == since_last_request * IntervalDen(eff) < IntervalNum(eff)

\* seconds_to_wait, rounded up to the clock's whole seconds
seconds_to_wait(eff) == CeilDiv(IntervalNum(eff), IntervalDen(eff)) - since_last_request

\* Faulty variant: the in-flight test left out.
MustSleepUntilWokenIgnoringInFlight(sched) == sched

\* if self.requests_in_flight > 0 or self.probe_scheduled
MustSleepUntilWoken(sched) == requests_in_flight > 0 \/ sched

\* Faulty variant: the doubling without its cap.
ProbeBackoffUncapped(w) == w * 2

\* min(self.probe_wait_seconds * 2, 60.0)
ProbeBackoff(w) == Min(w * 2, MaxProbeWait)

\* self.requests_in_flight += 1 on admission
InFlightAfterAdmission == requests_in_flight + 1

\* an exception leaves the call: the with statement releases the mutex
Raise(t) ==
    /\ tpc' = [tpc EXCEPT ![t] = "raised"]
    /\ timer' = [timer EXCEPT ![t] = NoTimeout]
    /\ notified' = [notified EXCEPT ![t] = FALSE]

Wait(t, state, timeout) ==
    /\ tpc' = [tpc EXCEPT ![t] = state]
    /\ timer' = [timer EXCEPT ![t] = timeout]
    /\ notified' = [notified EXCEPT ![t] = FALSE]

Admit(t, kind) ==
    /\ requests_in_flight' = InFlightAfterAdmission
    /\ since_last_request' = 0
    /\ tpc' = [tpc EXCEPT ![t] = "flight"]
    /\ timer' = [timer EXCEPT ![t] = NoTimeout]
    /\ notified' = [notified EXCEPT ![t] = FALSE]
    /\ adm' = [adm EXCEPT ![t] = [kind |-> kind,
                                  low |-> EffectiveRemaining <= 0,
                                  near |-> EffectiveRemaining <= headroom,
                                  alone |-> requests_in_flight = 0,
                                  paused |-> pause_left > 0,
                                  early |-> ra_left > 0]]

\* One pass of the while loop of block_until_ready from its top, with the mutex
\* held, until the thread waits on the condition or returns. sched is the value
\* of probe_scheduled on entry to the pass.
LoopPass(t, sched) ==
    IF Paused THEN
        /\ Wait(t, "wait_pause", pause_left)
        /\ probe_scheduled' = sched
        /\ UNCHANGED <<requests_in_flight, since_last_request, probe_wait_seconds, adm>>
    ELSE IF server_ratelimit_total = 0 THEN
        \* base_interval_seconds = 60.0 / 0: ZeroDivisionError
        /\ Raise(t)
        /\ probe_scheduled' = sched
        /\ UNCHANGED <<requests_in_flight, since_last_request, probe_wait_seconds, adm>>
    ELSE IF NormalRegime(EffectiveRemaining) THEN
        /\ probe_wait_seconds' = ProbeWaitReset(server_ratelimit_total)
        /\ probe_scheduled' = sched
        /\ IF MustPace(EffectiveRemaining) THEN
               /\ Wait(t, "wait_pace", seconds_to_wait(EffectiveRemaining))
               /\ UNCHANGED <<requests_in_flight, since_last_request, adm>>
           ELSE
               Admit(t, "normal")
    ELSE IF MustSleepUntilWoken(sched) THEN
        /\ Wait(t, "wait_indef", NoTimeout)
        /\ probe_scheduled' = sched
        /\ UNCHANGED <<requests_in_flight, since_last_request, probe_wait_seconds, adm>>
    ELSE
        /\ probe_scheduled' = TRUE
        /\ Wait(t, "wait_probe", probe_wait_seconds)
        /\ UNCHANGED <<requests_in_flight, since_last_request, probe_wait_seconds, adm>>

\* Faulty variant: the flag is not cleared when the wait is over.
ProbeFlagKept == probe_scheduled

\* finally: self.probe_scheduled = False
ProbeFlagAfterWait == FALSE

\* After the probe's wait: the finally clause clears probe_scheduled, then the
\* thread either admits itself as the probe or restarts the loop.
ProbeAfterWait(t) ==
    IF ~NormalRegime(EffectiveRemaining) THEN
        /\ probe_scheduled' = ProbeFlagAfterWait
        /\ probe_wait_seconds' = ProbeBackoff(probe_wait_seconds)
        /\ Admit(t, "probe")
    ELSE
        LoopPass(t, ProbeFlagAfterWait)

\* The probe's wait raises: the finally clause clears probe_scheduled and the
\* exception leaves block_until_ready.
probe_wait_raises(t) ==
    /\ tpc[t] = "wait_probe"
    /\ probe_scheduled' = ProbeFlagAfterWait
    /\ Raise(t)
    /\ UNCHANGED <<headroom, server_ratelimit_remaining, server_ratelimit_total,
                   requests_in_flight, since_last_request, pause_left,
                   probe_wait_seconds, adm, ra_left>>
    /\ UNCHANGED <<apiVars, procVars>>

\* A thread calls block_until_ready.
block_until_ready(t) ==
    /\ tpc[t] \in {"out", "raised"}
    /\ LoopPass(t, probe_scheduled)
    /\ UNCHANGED <<headroom, server_ratelimit_remaining, server_ratelimit_total,
                   pause_left, ra_left>>
    /\ UNCHANGED <<apiVars, procVars>>

\* self._condition.wait(...) returns: the thread was notified or its timeout ran out.
wait_return(t) ==
    /\ tpc[t] \in WaitStates
    /\ notified[t] \/ timer[t] = 0
    /\ IF tpc[t] = "wait_probe" THEN ProbeAfterWait(t)
       ELSE LoopPass(t, probe_scheduled)
    /\ UNCHANGED <<headroom, server_ratelimit_remaining, server_ratelimit_total,
                   pause_left, ra_left>>
    /\ UNCHANGED <<apiVars, procVars>>

Waiting(t) == tpc[t] \in WaitStates /\ ~notified[t]

\* A notified thread no longer depends on its timeout.
\* self._condition.notify_all()
NotifyAll ==
    /\ notified' = [u \in Workers |-> IF tpc[u] \in WaitStates THEN TRUE ELSE notified[u]]
    /\ timer' = [u \in Workers |-> IF tpc[u] \in WaitStates THEN NoTimeout ELSE timer[u]]

\* Faulty variant: the single notification left out.
NotifyNone == UNCHANGED <<notified, timer>>

\* self._condition.notify(): wakes one waiting thread, if any
NotifyOne ==
    IF \E u \in Workers : Waiting(u)
    THEN \E u \in Workers :
            /\ Waiting(u)
            /\ notified' = [notified EXCEPT ![u] = TRUE]
            /\ timer' = [timer EXCEPT ![u] = NoTimeout]
    ELSE UNCHANGED <<notified, timer>>

\* Faulty variant: the decrement left out.
InFlightAfterResponseNoDecrement == requests_in_flight

\* self.requests_in_flight -= 1, floored at zero
InFlightAfterResponse == Max(0, requests_in_flight - 1)

\* Faulty variant: the deadline is left as it was.
PauseKept(retry_seconds) == pause_left

\* self.retry_after_timestamp = time.time() + retry_seconds
PauseAfterRetryAfter(retry_seconds) == retry_seconds

\* The header sets of a response.  An absent x-ratelimit-total leaves the total
\* as it is and a response with Retry-After is not read any further, so one
\* header set stands for each of these cases.
Headers ==
    [retry_after : {Absent}, remaining : Remainings \cup {Absent}, total : Totals]
    \cup [retry_after : {Absent}, remaining : {Absent, MaxRemaining},
          total : {Absent}]
    \cup [retry_after : RetryAfters, remaining : {Absent}, total : {Absent}]
    \cup [retry_after : {MaxRetryAfter}, remaining : {MaxRemaining}, total : {30}]

\* Faulty variant: the quota above the headroom wakes a single thread.
NeverAboveHeadroom(effective_remaining) == FALSE

\* elif effective_remaining > self.headroom
AboveHeadroom(effective_remaining) == effective_remaining > headroom

\* int(value) raises ValueError
Unparseable(value) == value = Malformed

\* A response arrives for thread t's request and update_and_notify(headers) runs.
\* A Retry-After that does not parse is passed over (except ValueError: pass);
\* int(remaining) and int(total) are not guarded, and the ValueError of either
\* leaves the call before any thread is notified.
update_and_notify(t, headers) ==
    /\ tpc[t] = "flight"
    /\ adm' = [adm EXCEPT ![t] = NoAdm]
    /\ requests_in_flight' = InFlightAfterResponse
    /\ IF headers.retry_after # Absent /\ ~Unparseable(headers.retry_after) THEN
           /\ tpc' = [tpc EXCEPT ![t] = "out"]
           /\ pause_left' = PauseAfterRetryAfter(headers.retry_after)
           /\ ra_left' = Max(ra_left, headers.retry_after)
           /\ server_ratelimit_remaining' = 0
           /\ NotifyAll
           /\ UNCHANGED server_ratelimit_total
       ELSE IF Unparseable(headers.remaining) THEN
           /\ tpc' = [tpc EXCEPT ![t] = "raised"]
           /\ UNCHANGED <<server_ratelimit_remaining, server_ratelimit_total,
                          pause_left, ra_left, notified, timer>>
       ELSE IF Unparseable(headers.total) THEN
           /\ server_ratelimit_remaining' =
                  IF headers.remaining # Absent THEN headers.remaining
                  ELSE server_ratelimit_remaining
           /\ tpc' = [tpc EXCEPT ![t] = "raised"]
           /\ UNCHANGED <<server_ratelimit_total, pause_left, ra_left,
                          notified, timer>>
       ELSE
           /\ tpc' = [tpc EXCEPT ![t] = "out"]
           /\ server_ratelimit_remaining' =
                  IF headers.remaining # Absent THEN headers.remaining
                  ELSE server_ratelimit_remaining
           /\ server_ratelimit_total' =
                  IF headers.total # Absent THEN headers.total
                  ELSE server_ratelimit_total
           /\ IF server_ratelimit_remaining' > server_ratelimit_remaining THEN NotifyAll
              ELSE IF AboveHeadroom(server_ratelimit_remaining' - requests_in_flight')
                   THEN NotifyAll
              ELSE NotifyOne
           /\ UNCHANGED <<pause_left, ra_left>>
    /\ UNCHANGED <<headroom, since_last_request, probe_wait_seconds, probe_scheduled>>
    /\ UNCHANGED <<apiVars, procVars>>

\* One second passes.
Tick ==
    /\ timer' = [t \in Workers |-> IF timer[t] > 0 THEN timer[t] - 1 ELSE timer[t]]
    /\ pause_left' = Max(0, pause_left - 1)
    /\ ra_left' = Max(0, ra_left - 1)
    /\ since_last_request' = Min(SinceCap, since_last_request + 1)
    /\ UNCHANGED <<headroom, server_ratelimit_remaining, server_ratelimit_total,
                   requests_in_flight, probe_wait_seconds, probe_scheduled, tpc,
                   notified, adm>>
    /\ UNCHANGED <<apiVars, procVars>>

NextCtl ==
    \/ \E t \in Threads : block_until_ready(t)
    \/ \E t \in Threads : wait_return(t)
    \/ \E t \in Threads : \E headers \in Headers : update_and_notify(t, headers)
    \/ Tick

SpecCtl == InitCtl /\ [][NextCtl]_vars

\* Scheduling the controller's callers rely on: the clock advances, a thread
\* whose wait has ended runs again, and every admitted request is answered by
\* one update_and_notify call.
FairCtl ==
    /\ WF_vars(Tick)
    /\ \A t \in Threads : WF_vars(wait_return(t))
    /\ \A t \in Threads : WF_vars(\E headers \in Headers : update_and_notify(t, headers))

SpecCtlFair == InitCtl /\ [][NextCtl]_vars /\ FairCtl

\* header sets of the responses that carry no Retry-After
QuotaHeaders == {headers \in Headers : headers.retry_after = Absent}

\* The controller with as many callers as a processor has worker loops, so
\* that a response can find more than one thread waiting, against a server
\* that never answers 429.
NextCtlWide ==
    \/ \E t \in Workers : block_until_ready(t)
    \/ \E t \in Workers : wait_return(t)
    \/ \E t \in Workers : \E headers \in QuotaHeaders : update_and_notify(t, headers)
    \/ Tick

SpecCtlWide == InitCtl /\ [][NextCtlWide]_vars

\* The controller with responses that carry one header value it cannot use:
\* a Retry-After, x-ratelimit-remaining or x-ratelimit-total that is not an
\* integer, or an x-ratelimit-total of 0.
InvalidHeaders ==
    {[retry_after |-> Malformed, remaining |-> Absent, total |-> Absent],
     [retry_after |-> Absent, remaining |-> Malformed, total |-> Absent],
     [retry_after |-> Absent, remaining |-> Absent, total |-> Malformed],
     [retry_after |-> Absent, remaining |-> Absent, total |-> 0]}

NextCtlInvalid ==
    \/ NextCtl
    \/ \E t \in Threads : \E headers \in InvalidHeaders :
           update_and_notify(t, headers)

SpecCtlInvalid == InitCtl /\ [][NextCtlInvalid]_vars

\* The controller with probe waits that may end in an exception.
NextCtlInterrupted ==
    \/ NextCtl
    \/ \E t \in Threads : probe_wait_raises(t)

SpecCtlInterrupted == InitCtl /\ [][NextCtlInterrupted]_vars

(***************************************************************************)
(* FreshserviceApi._request.  One client object is shared by the worker    *)
(* threads; each thread runs one _request call at a time.  The fields      *)
(* rate_limit_hit and retry_after_until are read and written without a     *)
(* lock, so every statement that touches them is a step of its own.        *)
(* retry_after_until holds the seconds left until the stored datetime, 0   *)
(* once that moment has passed, NoDeadline for None.                       *)
(***************************************************************************)

\* response.status_code of an answer that is not a 429
Statuses == {200, 204, 404, 500}

\* response.headers.get("Retry-After") of a 429
RetryHeaders == {Absent} \cup RetryAfters

\* max_retries arguments of the calls
MaxRetriesArgs == 0..MaxRetriesBound

RECURSIVE Pow2(_)
Pow2(n) == IF n = 0 THEN 1 ELSE 2 * Pow2(n - 1)

\* wait_time = int(retry_header) if retry_header else (2 ** attempts)
wait_time(retry_header, a) ==
    IF retry_header # Absent THEN retry_header ELSE Pow2(a)

\* if attempts > max_retries: break
RetriesExhausted(a, mr) == a > mr

\* leaving _request, by return or by exception
Leave(c, how) ==
    /\ cpc' = [cpc EXCEPT ![c] = "done"]
    /\ outcome' = [outcome EXCEPT ![c] = how]

\* def _request(self, method, path, max_retries=5, **kwargs): attempts = 0
request(c, mr) ==
    /\ cpc[c] = "idle"
    /\ cpc' = [cpc EXCEPT ![c] = "loop"]
    /\ max_retries' = [max_retries EXCEPT ![c] = mr]
    /\ attempts' = [attempts EXCEPT ![c] = 0]
    /\ http_calls' = [http_calls EXCEPT ![c] = 0]
    /\ answers_429' = [answers_429 EXCEPT ![c] = 0]
    /\ response_status' = [response_status EXCEPT ![c] = None]
    /\ outcome' = [outcome EXCEPT ![c] = "none"]
    /\ UNCHANGED <<rate_limit_hit, retry_after_until, sleep_left>>
    /\ UNCHANGED <<ctlVars, procVars>>

\* while attempts <= max_retries: if self.rate_limit_hit and self.retry_after_until:
LoopTop(c) ==
    /\ cpc[c] = "loop"
    /\ IF ~(attempts[c] <= max_retries[c])
       THEN Leave(c, "rate_limit_error")
       ELSE /\ cpc' = [cpc EXCEPT ![c] =
                 IF rate_limit_hit /\ retry_after_until # NoDeadline
                 THEN "limited" ELSE "send"]
            /\ UNCHANGED outcome
    /\ UNCHANGED <<rate_limit_hit, retry_after_until, max_retries, attempts,
                   sleep_left, http_calls, answers_429, response_status>>
    /\ UNCHANGED <<ctlVars, procVars>>

\* if now < self.retry_after_until: time.sleep(...), the field read again; a
\* None stored meanwhile makes the comparison raise TypeError
CheckDeadline(c) ==
    /\ cpc[c] = "limited"
    /\ IF retry_after_until = NoDeadline
       THEN /\ Leave(c, "type_error")
            /\ UNCHANGED sleep_left
       ELSE /\ cpc' = [cpc EXCEPT ![c] = "sleep"]
            /\ sleep_left' = [sleep_left EXCEPT ![c] = retry_after_until]
            /\ UNCHANGED outcome
    /\ UNCHANGED <<rate_limit_hit, retry_after_until, max_retries, attempts,
                   http_calls, answers_429, response_status>>
    /\ UNCHANGED <<ctlVars, procVars>>

\* after the sleep, if any: self.rate_limit_hit = False;
\* self.retry_after_until = None
ResetPause(c) ==
    /\ cpc[c] = "sleep"
    /\ sleep_left[c] = 0
    /\ rate_limit_hit' = FALSE
    /\ retry_after_until' = NoDeadline
    /\ cpc' = [cpc EXCEPT ![c] = "send"]
    /\ UNCHANGED <<max_retries, attempts, sleep_left, http_calls, answers_429,
                   response_status, outcome>>
    /\ UNCHANGED <<ctlVars, procVars>>

\* response = self.session.request(method, url, **kwargs): the call goes out
Send(c) ==
    /\ cpc[c] = "send"
    /\ http_calls' = [http_calls EXCEPT ![c] = @ + 1]
    /\ cpc' = [cpc EXCEPT ![c] = "await"]
    /\ UNCHANGED <<rate_limit_hit, retry_after_until, max_retries, attempts,
                   sleep_left, answers_429, response_status, outcome>>
    /\ UNCHANGED <<ctlVars, procVars>>

\* if response.status_code == 429: ... continue
Receive429(c, retry_header) ==
    /\ cpc[c] = "await"
    /\ answers_429' = [answers_429 EXCEPT ![c] = @ + 1]
    /\ response_status' = [response_status EXCEPT ![c] = 429]
    /\ attempts' = [attempts EXCEPT ![c] = @ + 1]
    /\ IF RetriesExhausted(attempts'[c], max_retries[c])
       THEN /\ Leave(c, "rate_limit_error")
            /\ UNCHANGED <<rate_limit_hit, retry_after_until>>
       ELSE /\ rate_limit_hit' = TRUE
            /\ retry_after_until' = wait_time(retry_header, attempts'[c])
            /\ cpc' = [cpc EXCEPT ![c] = "loop"]
            /\ UNCHANGED outcome
    /\ UNCHANGED <<max_retries, sleep_left, http_calls>>
    /\ UNCHANGED <<ctlVars, procVars>>

\* Faulty variant: only the client errors raise.
raises_for_client_errors(status) == status \in 400..499

\* response.raise_for_status() raises on the 4xx and 5xx statuses
raises_for_status(status) == status >= 400

\* response.raise_for_status(); return {} if 204 else response.json()
ReceiveOther(c, status) ==
    /\ cpc[c] = "await"
    /\ Leave(c, IF raises_for_status(status) THEN "http_error" ELSE "returned")
    /\ response_status' = [response_status EXCEPT ![c] = status]
    /\ UNCHANGED <<rate_limit_hit, retry_after_until, max_retries, attempts,
                   sleep_left, http_calls, answers_429>>
    /\ UNCHANGED <<ctlVars, procVars>>

\* self.session.request raises (connection failure, timeout); nothing in
\* _request catches it
TransportError(c) ==
    /\ cpc[c] = "await"
    /\ Leave(c, "transport_error")
    /\ UNCHANGED response_status
    /\ UNCHANGED <<rate_limit_hit, retry_after_until, max_retries, attempts,
                   sleep_left, http_calls, answers_429>>
    /\ UNCHANGED <<ctlVars, procVars>>

\* the call's frame is gone
CallOver(c) ==
    /\ cpc' = [cpc EXCEPT ![c] = "idle"]
    /\ max_retries' = [max_retries EXCEPT ![c] = 0]
    /\ attempts' = [attempts EXCEPT ![c] = 0]
    /\ http_calls' = [http_calls EXCEPT ![c] = 0]
    /\ answers_429' = [answers_429 EXCEPT ![c] = 0]
    /\ response_status' = [response_status EXCEPT ![c] = None]
    /\ outcome' = [outcome EXCEPT ![c] = "none"]
    /\ UNCHANGED <<rate_limit_hit, retry_after_until, sleep_left>>

\* the caller has the result and is free to call _request again
Finish(c) ==
    /\ cpc[c] = "done"
    /\ CallOver(c)
    /\ UNCHANGED <<ctlVars, procVars>>

\* one second passes for datetime.now() and time.sleep
TickApi ==
    /\ \/ retry_after_until > 0
       \/ \E c \in Threads : sleep_left[c] > 0
    /\ retry_after_until' =
           IF retry_after_until > 0 THEN retry_after_until - 1
           ELSE retry_after_until
    /\ sleep_left' = [c \in Threads |->
           IF sleep_left[c] > 0 THEN sleep_left[c] - 1 ELSE 0]
    /\ UNCHANGED <<rate_limit_hit, cpc, max_retries, attempts, http_calls,
                   answers_429, response_status, outcome>>
    /\ UNCHANGED <<ctlVars, procVars>>

InitApi ==
    /\ CtlConstructed /\ headroom = MaxHeadroom
    /\ ApiConstructed
    /\ ProcConstructed /\ NoStore

NextApi ==
    \/ \E c \in Threads, mr \in MaxRetriesArgs : request(c, mr)
    \/ \E c \in Threads : LoopTop(c)
    \/ \E c \in Threads : CheckDeadline(c)
    \/ \E c \in Threads : ResetPause(c)
    \/ \E c \in Threads : Send(c)
    \/ \E c \in Threads, retry_header \in RetryHeaders : Receive429(c, retry_header)
    \/ \E c \in Threads, status \in Statuses : ReceiveOther(c, status)
    \/ \E c \in Threads : TransportError(c)
    \/ \E c \in Threads : Finish(c)
    \/ TickApi

SpecApi == InitApi /\ [][NextApi]_vars


(***************************************************************************)
(* BaseBatchProcessor with its two strategies, BatchTicketCategoryUpdater  *)
(* ("update") and BatchTicketImporter ("create"), over one SQLite store.   *)
(* Each worker thread has its own connection; db_lock is the connection    *)
(* inside a write transaction.  The API action is the call's result as the *)
(* worker loop sees it: a response with a status code, or an exception     *)
(* with or without a response attribute.                                   *)
(***************************************************************************)

\* if limit: / if self.iteration_limit and ...
Truthy(x) == x # None /\ x # 0

\* limit arguments of run()
LimitArgs == {None, SmallLimit}

\* what _perform_api_action gives the worker loop: a response with this
\* status, an exception carrying a response with this status, or None for an
\* exception without a response attribute
SuccessStatuses == IF strategy = "update" THEN {200} ELSE {201}
ErrorStatuses == {404}
ApiResults == SuccessStatuses \cup ErrorStatuses \cup {None}

\* Faulty variant: the claim takes every row without a successful outcome.
ClaimableUnlessDone(row) ==
    IF strategy = "update" THEN row.update_state # "updated"
    ELSE row.response_status_code = NULL

\* WHERE update_state = 'ready' / WHERE request_timestamp IS NULL
Claimable(row) ==
    IF strategy = "update" THEN row.update_state = "ready"
    ELSE row.request_timestamp = NULL

ClaimableRows == {r \in Rows : Claimable(tickets[r])}

\* ORDER BY RANDOM() LIMIT 1 / ORDER BY id DESC LIMIT 1
NextTicketChoices ==
    IF random_order THEN ClaimableRows
    ELSE {r \in ClaimableRows : \A q \in ClaimableRows : q <= r}

\* Faulty variant: the claim runs in a deferred transaction, which takes no
\* lock before its SELECT.
WriteLockNotTaken == TRUE

\* BEGIN IMMEDIATE gets the write lock when no other connection holds it
WriteLockFree == db_lock = NoWorker

\* Faulty variant: the claim stamps the row and leaves its update_state.
InProgressStampOnly(row) ==
    [row EXCEPT !.request_timestamp = Timestamp]

\* SET update_state = 'in-progress', request_timestamp = now
InProgress(row) ==
    IF strategy = "update"
    THEN [row EXCEPT !.update_state = "in-progress", !.request_timestamp = Timestamp]
    ELSE [row EXCEPT !.request_timestamp = Timestamp]

\* _handle_success
Succeeded(row, status) ==
    IF strategy = "update"
    THEN [row EXCEPT !.update_state = "updated", !.response_status_code = status]
    ELSE [row EXCEPT !.response_status_code = status]

\* _handle_failure
Failed(row, status, message) ==
    IF strategy = "update"
    THEN [row EXCEPT !.update_state = "failed", !.response_status_code = status,
                     !.error_message = message]
    ELSE [row EXCEPT !.response_status_code = status, !.error_message = message]

\* hasattr(e, 'response') and e.response is not None: FreshserviceHTTPError
\* carries the response; FreshserviceRateLimitError and TypeError have no
\* such attribute, and on a transport error of requests it is None
HasResponse(how) == how = "http_error"

\* the status_code and error_message the except branch hands to
\* _handle_failure
failure_status(how, status) == IF HasResponse(how) THEN status ELSE None
failure_message(how) == IF HasResponse(how) THEN ResponseBody ELSE ExceptionText

\* Faulty variant: the reset takes every row that did not succeed.
RetrySelectedUnlessSucceeded(row) ==
    IF strategy = "update" THEN row.update_state # "updated"
    ELSE row.response_status_code # 201

\* retry_failed: WHERE update_state = 'failed' /
\* WHERE response_status_code IS NOT 201 AND response_status_code IS NOT NULL
RetrySelected(row) ==
    IF strategy = "update" THEN row.update_state = "failed"
    ELSE row.response_status_code # 201 /\ row.response_status_code # NULL

\* retry_failed: the SET clause
RetryReset(row) ==
    IF strategy = "update"
    THEN [row EXCEPT !.update_state = NullState, !.request_timestamp = NULL,
                     !.response_status_code = NULL, !.error_message = NULL]
    ELSE [row EXCEPT !.request_timestamp = NULL, !.response_status_code = NULL,
                     !.error_message = NULL]

\* run(): iteration_count = 0; if limit: iteration_limit = int(limit); the
\* executor starts max_workers worker loops
StartRun(limit, max_workers, store) ==
    /\ running' = TRUE
    /\ runs' = runs + 1
    /\ run_limit' = limit
    /\ iteration_count' = 0
    /\ iteration_limit' = IF Truthy(limit) THEN limit ELSE iteration_limit
    /\ wpc' = [w \in Workers |-> IF w <= max_workers THEN "count" ELSE "idle"]
    /\ ready_at_start' = {r \in Rows : Claimable(store[r])}
    /\ claims' = [r \in Rows |-> 0]
    /\ sent' = [r \in Rows |-> 0]
    /\ UNCHANGED accepted

run(limit, max_workers) ==
    /\ ~running
    /\ runs < MaxRuns
    /\ StartRun(limit, max_workers, tickets)
    /\ quantity_to_retry' = None
    /\ UNCHANGED <<prepVars, strategy, random_order, tickets, db_lock, success_count,
                   failure_count, ticket_row, claimed_from>>
    /\ UNCHANGED <<ctlVars, apiVars>>

\* retry_failed: result.rowcount, the rows the WHERE clause matched
rowcount == Cardinality({r \in Rows : RetrySelected(tickets[r])})

\* retry_failed(): the UPDATE, quantity_to_retry = result.rowcount, then
\* self.run() when it is positive.  The default max_workers of run() is the
\* whole pool.
retry_failed ==
    /\ ~running
    /\ runs < MaxRuns
    /\ tickets' = [r \in Rows |->
           IF RetrySelected(tickets[r]) THEN RetryReset(tickets[r])
           ELSE tickets[r]]
    /\ quantity_to_retry' = rowcount
    /\ IF rowcount > 0
       THEN StartRun(None, NumThreads, tickets')
       ELSE UNCHANGED <<running, runs, run_limit, iteration_count,
                        iteration_limit, wpc, ready_at_start, claims, sent, accepted>>
    /\ UNCHANGED <<prepVars, strategy, random_order, db_lock, success_count,
                   failure_count, ticket_row, claimed_from>>
    /\ UNCHANGED <<ctlVars, apiVars>>

\* the worker's loop ends: break, or _fetch_and_lock_next_item returned None
Exit(w) == wpc' = [wpc EXCEPT ![w] = "exit"]

\* Faulty variant: the loop goes on when no row was returned.
ContinueWithoutRow(w) == wpc' = [wpc EXCEPT ![w] = "count"]

\* ticket_row = self._fetch_and_lock_next_item(db); if not ticket_row: break
BreakWithoutRow(w) == Exit(w)

\* Faulty variant: the reservation stops one iteration late.
LimitReachedOffByOne == iteration_count > iteration_limit

\* self.iteration_count >= self.iteration_limit
LimitReached == iteration_count >= iteration_limit

\* with self.count_lock: if self.iteration_limit and self.iteration_count >=
\* self.iteration_limit: break; self.iteration_count += 1
CheckLimit(w) ==
    /\ wpc[w] = "count"
    /\ IF Truthy(iteration_limit) /\ LimitReached
       THEN /\ Exit(w)
            /\ UNCHANGED iteration_count
       ELSE /\ iteration_count' = iteration_count + 1
            /\ wpc' = [wpc EXCEPT ![w] = "begin"]
    /\ UNCHANGED <<prepVars, strategy, random_order, tickets, db_lock, iteration_limit,
                   success_count, failure_count, running, runs, run_limit, ticket_row, ready_at_start, claims,
                   sent, accepted, claimed_from, quantity_to_retry>>
    /\ UNCHANGED <<ctlVars, apiVars>>

\* _fetch_and_lock_next_item: BEGIN IMMEDIATE gives up on a lock another
\* connection holds; except sqlite3.OperationalError: rollback, return None,
\* and the worker loop breaks on the None
BeginBusy(w) ==
    /\ wpc[w] = "begin"
    /\ db_lock \notin {NoWorker, w}
    /\ BreakWithoutRow(w)
    /\ UNCHANGED <<prepVars, strategy, random_order, tickets, db_lock, iteration_count,
                   iteration_limit, success_count, failure_count, running, runs,
                   run_limit, ticket_row, ready_at_start, claims, sent, accepted, claimed_from,
                   quantity_to_retry>>
    /\ UNCHANGED <<ctlVars, apiVars>>

\* _fetch_and_lock_next_item: BEGIN IMMEDIATE takes the write lock, then the
\* SELECT; without a row rollback and return None
BeginSelect(w) ==
    /\ wpc[w] = "begin"
    /\ WriteLockFree
    /\ IF NextTicketChoices = {}
       THEN /\ BreakWithoutRow(w)
            /\ UNCHANGED <<db_lock, ticket_row>>
       ELSE /\ \E r \in NextTicketChoices :
                   ticket_row' = [ticket_row EXCEPT ![w] = r]
            /\ db_lock' = w
            /\ wpc' = [wpc EXCEPT ![w] = "mark"]
    /\ UNCHANGED <<prepVars, strategy, random_order, tickets, iteration_count,
                   iteration_limit, success_count, failure_count, running, runs,
                   run_limit, ready_at_start, claims,
                   sent, accepted, claimed_from, quantity_to_retry>>
    /\ UNCHANGED <<ctlVars, apiVars>>

\* _fetch_and_lock_next_item: the UPDATE, commit, return ticket_row
Mark(w) ==
    /\ wpc[w] = "mark"
    /\ tickets' = [tickets EXCEPT ![ticket_row[w]] = InProgress(@)]
    /\ db_lock' = IF db_lock = w THEN NoWorker ELSE db_lock
    /\ claims' = [claims EXCEPT ![ticket_row[w]] = @ + 1]
    /\ claimed_from' = [claimed_from EXCEPT ![w] = tickets[ticket_row[w]]]
    /\ wpc' = [wpc EXCEPT ![w] = "api"]
    /\ UNCHANGED <<prepVars, strategy, random_order, iteration_count, iteration_limit,
                   success_count, failure_count, running, runs, run_limit,
                   ticket_row, ready_at_start, sent, accepted, quantity_to_retry>>
    /\ UNCHANGED <<ctlVars, apiVars>>

\* the ways the try block ends once the API action has returned a response:
\* _handle_success has committed, or response.status_code or _handle_success
\* has raised
AfterSuccess == {"returned", "handler_error"}

\* The rest of the iteration once the API action has returned a response
\* or raised: _handle_success and success_count += 1, or failure_count += 1
\* and _handle_failure; then _print_progress.
Record(w, how, status) ==
    /\ IF how = "returned"
       THEN /\ tickets' = [tickets EXCEPT ![ticket_row[w]] =
                               Succeeded(@, status)]
            /\ success_count' = success_count + 1
            /\ UNCHANGED failure_count
       ELSE /\ tickets' = [tickets EXCEPT ![ticket_row[w]] =
                               Failed(@, failure_status(how, status),
                                      failure_message(how))]
            /\ failure_count' = failure_count + 1
            /\ UNCHANGED success_count
    /\ sent' = [sent EXCEPT ![ticket_row[w]] = @ + 1]
    /\ accepted' = IF how \in AfterSuccess THEN accepted \cup {ticket_row[w]}
                    ELSE accepted
    /\ ticket_row' = [ticket_row EXCEPT ![w] = NoRow]
    /\ claimed_from' = [claimed_from EXCEPT ![w] = FreshRow(NullState)]
    /\ wpc' = [wpc EXCEPT ![w] = "count"]
    /\ UNCHANGED <<prepVars, strategy, random_order, db_lock, iteration_count,
                   iteration_limit, running, runs, run_limit,
                   ready_at_start, claims, quantity_to_retry>>

\* how the API action ends when the server answers result, or when it raises
\* without a response (None)
OutcomeOf(result) ==
    IF result \in SuccessStatuses THEN "returned"
    ELSE IF result \in ErrorStatuses THEN "http_error"
    ELSE "transport_error"

\* The try block and its except branch with the API action taken as a whole:
\* the call touches nothing the other workers see, so it is one step with
\* the UPDATE that records its result; the UPDATE waits for the write lock.
PerformAndRecord(w) ==
    /\ wpc[w] = "api"
    /\ WriteLockFree
    /\ \E result \in ApiResults : Record(w, OutcomeOf(result), result)
    /\ UNCHANGED <<ctlVars, apiVars>>

\* The API action returns a success response and the rest of the try block
\* raises: response.status_code or response.json() on what the call returned,
\* or the UPDATE of _handle_success.  The except branch takes it as a failed
\* call without a response.
HandleSuccessRaises(w) ==
    /\ wpc[w] = "api"
    /\ WriteLockFree
    /\ \E result \in SuccessStatuses : Record(w, "handler_error", result)
    /\ UNCHANGED <<ctlVars, apiVars>>

\* An exception that _worker_loop does not catch ends worker w's loop:
\* _fetch_and_lock_next_item raises something other than
\* sqlite3.OperationalError, or _handle_failure raises inside the except
\* branch, after failure_count += 1.  The connection's context manager rolls
\* an open transaction back; a row already marked stays 'in-progress'.
WorkerFails(w) ==
    /\ wpc[w] \in {"begin", "mark", "api"}
    /\ wpc' = [wpc EXCEPT ![w] = "failed"]
    /\ db_lock' = IF db_lock = w THEN NoWorker ELSE db_lock
    /\ failure_count' =
           IF wpc[w] = "api" THEN failure_count + 1 ELSE failure_count
    /\ ticket_row' = [ticket_row EXCEPT ![w] = NoRow]
    /\ claimed_from' = [claimed_from EXCEPT ![w] = FreshRow(NullState)]
    /\ UNCHANGED <<prepVars, strategy, random_order, tickets, iteration_count,
                   iteration_limit, success_count, running, runs, run_limit,
                   ready_at_start, claims, sent, accepted, quantity_to_retry>>
    /\ UNCHANGED <<ctlVars, apiVars>>

\* run(): every future is done, future.result() of a failed worker raises and
\* is caught; _print_final_stats; return
RunReturn ==
    /\ running
    /\ \A w \in Workers : wpc[w] \in {"idle", "exit", "failed"}
    /\ running' = FALSE
    /\ wpc' = [w \in Workers |-> "idle"]
    /\ quantity_to_retry' = None
    /\ UNCHANGED <<prepVars, strategy, random_order, tickets, db_lock, iteration_count,
                   iteration_limit, success_count, failure_count, runs,
                   run_limit, ticket_row, ready_at_start, claims, sent, accepted, claimed_from>>
    /\ UNCHANGED <<ctlVars, apiVars>>

\* rows of a store no run has touched: as prepare() or the import's inserts
\* leave them
StoredRows ==
    IF strategy = "update"
    THEN {FreshRow(st) : st \in PreparedStates}
    ELSE {FreshRow(NullState)}

InitProc ==
    /\ CtlConstructed /\ headroom = MaxHeadroom
    /\ ApiConstructed
    /\ ProcConstructed
    /\ strategy \in {"update", "create"}
    /\ random_order \in BOOLEAN
    /\ tickets \in [Rows -> StoredRows]
    /\ NoCategories

NextProc ==
    \/ \E limit \in LimitArgs, max_workers \in Threads : run(limit, max_workers)
    \/ retry_failed
    \/ \E w \in Threads : CheckLimit(w)
    \/ \E w \in Threads : BeginSelect(w)
    \/ \E w \in Threads : BeginBusy(w)
    \/ \E w \in Threads : Mark(w)
    \/ \E w \in Threads : PerformAndRecord(w)
    \/ RunReturn

SpecProc == InitProc /\ [][NextProc]_vars

\* The processor with its API action carried out by the client: worker w
\* runs its _request call as caller w of the shared FreshserviceApi.  The
\* runs are those of a pool of one worker, which meets every way a call can
\* end except the TypeError that takes a second caller; SpecApi has the
\* client under concurrent callers.

\* _perform_api_action: ticket().update / ticket().create enter _request
\* without a max_retries argument
PerformApiAction(w) ==
    /\ wpc[w] = "api"
    /\ request(w, DefaultMaxRetries)

\* _request has returned or raised in worker w's thread; the rest of the
\* iteration records the result
RecordOutcome(w) ==
    /\ wpc[w] = "api"
    /\ cpc[w] = "done"
    /\ WriteLockFree
    /\ Record(w, outcome[w], response_status[w])
    /\ CallOver(w)
    /\ UNCHANGED ctlVars

NextItems ==
    \/ run(None, 1)
    \/ \E w \in Threads : CheckLimit(w)
    \/ \E w \in Threads : BeginSelect(w)
    \/ \E w \in Threads : Mark(w)
    \/ \E w \in Threads : PerformApiAction(w)
    \/ \E c \in Threads : LoopTop(c)
    \/ \E c \in Threads : CheckDeadline(c)
    \/ \E c \in Threads : ResetPause(c)
    \/ \E c \in Threads : Send(c)
    \/ \E c \in Threads, retry_header \in RetryHeaders : Receive429(c, retry_header)
    \/ \E c \in Threads, status \in Statuses : ReceiveOther(c, status)
    \/ \E c \in Threads : TransportError(c)
    \/ TickApi
    \/ \E w \in Threads : RecordOutcome(w)
    \/ RunReturn

SpecItems == InitProc /\ [][NextItems]_vars

\* The processor run with the limits the command line also accepts, zero and
\* a limit above the number of stored rows, on a pool of up to NumWorkers.
AmpleLimit == NumRows + 1
EdgeLimitArgs == {0, AmpleLimit}

NextProcLimits ==
    \/ \E limit \in EdgeLimitArgs, max_workers \in Workers :
           run(limit, max_workers)
    \/ \E w \in Workers : CheckLimit(w)
    \/ \E w \in Workers : BeginSelect(w)
    \/ \E w \in Workers : BeginBusy(w)
    \/ \E w \in Workers : Mark(w)
    \/ \E w \in Workers : PerformAndRecord(w)
    \/ RunReturn

SpecProcLimits == InitProc /\ [][NextProcLimits]_vars

\* The processor with workers that may fail.
NextProcFailing ==
    \/ NextProc
    \/ \E w \in Workers : WorkerFails(w)

SpecProcFailing == InitProc /\ [][NextProcFailing]_vars

\* The processor with success handling that may raise.
NextProcHandlers ==
    \/ NextProc
    \/ \E w \in Threads : HandleSuccessRaises(w)

SpecProcHandlers == InitProc /\ [][NextProcHandlers]_vars

(***************************************************************************)
(* The standalone scripts, TicketCategoryUpdater ("update") and            *)
(* TicketImporter ("create"): run() and the reservation of an iteration    *)
(* are those of the processor, the claim is written out in the worker, and *)
(* the two outcome counters are updated outside count_lock.                *)
(***************************************************************************)

\* BEGIN IMMEDIATE gives up on a lock another connection holds; except
\* sqlite3.OperationalError: db.rollback().  ticket_row is still None, and
\* ticket_row['new_category'] (ticket_row["email"]) raises TypeError outside
\* any try: the worker's loop is over.
StandaloneBeginBusy(w) ==
    /\ wpc[w] = "begin"
    /\ db_lock \notin {NoWorker, w}
    /\ wpc' = [wpc EXCEPT ![w] = "failed"]
    /\ UNCHANGED <<prepVars, strategy, random_order, tickets, db_lock, iteration_count,
                   iteration_limit, success_count, failure_count, running, runs,
                   run_limit, ticket_row, ready_at_start, claims, sent, accepted,
                   claimed_from, quantity_to_retry>>
    /\ UNCHANGED <<ctlVars, apiVars>>

\* after except sqlite3.OperationalError: db.rollback() the worker goes on to
\* build the payload from ticket_row, which is the row the SELECT returned
AfterRollback(w) ==
    /\ wpc' = [wpc EXCEPT ![w] = "api"]
    /\ UNCHANGED ticket_row

\* the iterations of a run in which the store may refuse the mark
MaxLockedIterations == NumRows - 1

\* The UPDATE that marks the selected row, or its commit, raises
\* sqlite3.OperationalError (database is locked); except
\* sqlite3.OperationalError: db.rollback().
StandaloneMarkFails(w) ==
    /\ wpc[w] = "mark"
    /\ iteration_count <= MaxLockedIterations
    /\ db_lock' = IF db_lock = w THEN NoWorker ELSE db_lock
    /\ AfterRollback(w)
    /\ UNCHANGED <<prepVars, strategy, random_order, tickets, iteration_count,
                   iteration_limit, success_count, failure_count, running, runs,
                   run_limit, ready_at_start, claims, sent, accepted,
                   claimed_from, quantity_to_retry>>
    /\ UNCHANGED <<ctlVars, apiVars>>

\* another worker is running, whose increment may fall between this worker's
\* read of a counter and its write
Racing(w) == \E v \in Workers \ {w} : wpc[v] \in {"count", "begin", "mark", "api"}

\* self.success_count = self.success_count + 1 (self.failure_count likewise)
\* outside count_lock: the value written is one more than the value read,
\* which under racing workers is any value the counter has had
Unlocked(count, w) ==
    {count + 1} \cup (IF Racing(w) THEN {n + 1 : n \in 0..count} ELSE {})

\* The second try block of the worker and its except branch, with the API
\* call taken as a whole: the UPDATE that records the response and
\* success_count + 1, or failure_count + 1 and the UPDATE that records the
\* failure; then _print_progress.
StandaloneRecord(w) ==
    /\ wpc[w] = "api"
    /\ WriteLockFree
    /\ \E result \in ApiResults :
           IF OutcomeOf(result) = "returned"
           THEN /\ tickets' = [tickets EXCEPT ![ticket_row[w]] =
                                   Succeeded(@, result)]
                /\ success_count' \in Unlocked(success_count, w)
                /\ accepted' = accepted \cup {ticket_row[w]}
                /\ UNCHANGED failure_count
           ELSE /\ tickets' = [tickets EXCEPT ![ticket_row[w]] =
                                   Failed(@, failure_status(OutcomeOf(result), result),
                                          failure_message(OutcomeOf(result)))]
                /\ failure_count' \in Unlocked(failure_count, w)
                /\ UNCHANGED <<success_count, accepted>>
    /\ sent' = [sent EXCEPT ![ticket_row[w]] = @ + 1]
    /\ ticket_row' = [ticket_row EXCEPT ![w] = NoRow]
    /\ claimed_from' = [claimed_from EXCEPT ![w] = FreshRow(NullState)]
    /\ wpc' = [wpc EXCEPT ![w] = "count"]
    /\ UNCHANGED <<prepVars, strategy, random_order, db_lock, iteration_count,
                   iteration_limit, running, runs, run_limit,
                   ready_at_start, claims, quantity_to_retry>>
    /\ UNCHANGED <<ctlVars, apiVars>>

\* the scripts select ORDER BY id DESC only
InitStandalone == InitProc /\ ~random_order

NextStandalone ==
    \/ \E limit \in LimitArgs, max_workers \in Threads : run(limit, max_workers)
    \/ \E w \in Threads : CheckLimit(w)
    \/ \E w \in Threads : BeginSelect(w)
    \/ \E w \in Threads : StandaloneBeginBusy(w)
    \/ \E w \in Threads : Mark(w)
    \/ \E w \in Threads : StandaloneMarkFails(w)
    \/ \E w \in Threads : StandaloneRecord(w)
    \/ RunReturn

SpecStandalone == InitStandalone /\ [][NextStandalone]_vars

\* one step of worker w's loop
WorkerStep(w) ==
    CheckLimit(w) \/ BeginSelect(w) \/ BeginBusy(w) \/ Mark(w)
        \/ PerformAndRecord(w)

\* The executor's threads all get to run, and run() returns once every
\* future is done.
SpecProcLimitsFair ==
    /\ SpecProcLimits
    /\ \A w \in Workers : WF_vars(WorkerStep(w))
    /\ WF_vars(RunReturn)

(***************************************************************************)
(* BatchTicketCategoryUpdater.prepare with validate_category and           *)
(* get_new_category, and the payload _perform_api_action builds for a row  *)
(* prepare() left ready.  TEXT columns hold NULL, the empty string or a    *)
(* name; the lookup tables hold NULL or a name, and a name in the columns  *)
(* that are NOT NULL.                                                      *)
(***************************************************************************)

\* column = ? in SQL: not true when either side is NULL
SqlEquals(column, value) == column # NULL /\ value # NULL /\ column = value

\* the three category columns of a ticket
Triple(c) ==
    [category |-> c.category, sub_category |-> c.sub_category,
     item_category |-> c.item_category]

\* validate_category: the query depends on which arguments are truthy
validate_category(category, sub_category, item_category) ==
    IF Truthy(category) /\ Truthy(sub_category) /\ Truthy(item_category)
    THEN \E v \in valid_categories :
            /\ SqlEquals(v.category, category)
            /\ SqlEquals(v.sub_category, sub_category)
            /\ SqlEquals(v.item_category, item_category)
    ELSE IF Truthy(category) /\ Truthy(sub_category)
    THEN \E v \in valid_categories :
            /\ SqlEquals(v.category, category)
            /\ SqlEquals(v.sub_category, sub_category)
            /\ v.item_category = NULL
    ELSE IF Truthy(category)
    THEN \E v \in valid_categories :
            /\ SqlEquals(v.category, category)
            /\ v.sub_category = NULL
            /\ v.item_category = NULL
    ELSE FALSE

\* category_empty = all(v is None for v in [...])
category_empty(c) ==
    c.category = NULL /\ c.sub_category = NULL /\ c.item_category = NULL

\* get_new_category: the rows of category_mappings its query matches
MappingsMatched(old_category, old_sub_category, old_item_category) ==
    {m \in category_mappings :
        /\ SqlEquals(m.old_category, old_category)
        /\ IF Truthy(old_sub_category) /\ Truthy(old_item_category)
           THEN /\ SqlEquals(m.old_sub_category, old_sub_category)
                /\ SqlEquals(m.old_item_category, old_item_category)
           ELSE IF Truthy(old_sub_category)
           THEN /\ SqlEquals(m.old_sub_category, old_sub_category)
                /\ m.old_item_category = NULL
           ELSE /\ m.old_sub_category = NULL
                /\ m.old_item_category = NULL}

\* cursor.fetchone() returned None; old_category is NOT NULL in a stored row
NoMapping ==
    [old_category |-> NULL, old_sub_category |-> NULL,
     old_item_category |-> NULL, new_category |-> NULL,
     new_sub_category |-> NULL, new_item_category |-> NULL]

\* get_new_category: LIMIT 1 returns one of the matched rows, or None
get_new_category(old_category, old_sub_category, old_item_category) ==
    IF MappingsMatched(old_category, old_sub_category, old_item_category) = {}
    THEN {NoMapping}
    ELSE MappingsMatched(old_category, old_sub_category, old_item_category)

\* prepare: the update_state its loop body gives a pending ticket, new being
\* what get_new_category returned for it
Classified(c, new) ==
    IF validate_category(c.category, c.sub_category, c.item_category)
           \/ category_empty(c)
    THEN "skipped"
    ELSE IF new # NoMapping THEN "ready"
    ELSE "unmapped"

\* WHERE update_state IS NULL
Pending(r) == tickets[r].update_state = NullState

\* prepare(): every pending ticket is classified, and a ready one gets the
\* target columns of its mapping row; commit
prepare ==
    /\ ~running
    /\ strategy = "update"
    /\ \E new \in [Rows -> category_mappings \cup {NoMapping}] :
        /\ \A r \in Rows :
               new[r] \in get_new_category(categories[r].category,
                                           categories[r].sub_category,
                                           categories[r].item_category)
        /\ tickets' = [r \in Rows |->
               IF Pending(r)
               THEN [tickets[r] EXCEPT
                        !.update_state = Classified(categories[r], new[r])]
               ELSE tickets[r]]
        /\ categories' = [r \in Rows |->
               IF Pending(r) /\ Classified(categories[r], new[r]) = "ready"
               THEN [categories[r] EXCEPT
                        !.new_category = new[r].new_category,
                        !.new_sub_category = new[r].new_sub_category,
                        !.new_item_category = new[r].new_item_category]
               ELSE categories[r]]
    /\ UNCHANGED <<valid_categories, category_mappings, ticket_update_payload>>
    /\ UNCHANGED <<strategy, random_order, db_lock, iteration_count,
                   iteration_limit, success_count, failure_count, running,
                   runs, run_limit, wpc, ticket_row, ready_at_start, claims,
                   sent, accepted, claimed_from, quantity_to_retry>>
    /\ UNCHANGED <<ctlVars, apiVars>>

\* _perform_api_action: ticket_update_payload, as the set of its items
Payload(c) ==
    {<<"category", c.new_category>>}
        \cup (IF Truthy(c.new_sub_category)
              THEN {<<"sub_category", c.new_sub_category>>} ELSE {})
        \cup (IF Truthy(c.new_item_category)
              THEN {<<"item_category", c.new_item_category>>} ELSE {})

\* _perform_api_action for row r, a row the claim query selects: the payload
\* handed to ticket().update with the row's id
perform_api_action(r) ==
    /\ strategy = "update"
    /\ tickets[r].update_state = "ready"
    /\ ticket_update_payload' = [id |-> r, body |-> Payload(categories[r])]
    /\ UNCHANGED <<categories, valid_categories, category_mappings>>
    /\ UNCHANGED <<strategy, random_order, tickets, db_lock, iteration_count,
                   iteration_limit, success_count, failure_count, running,
                   runs, run_limit, wpc, ticket_row, ready_at_start, claims,
                   sent, accepted, claimed_from, quantity_to_retry>>
    /\ UNCHANGED <<ctlVars, apiVars>>

\* what the lookup tables hold in a column: NULL or a name
TableValues == {NULL} \cup Names

\* rows of valid_categories and of category_mappings
ValidRows ==
    [category : Names, sub_category : TableValues, item_category : TableValues]
MappingRows ==
    [old_category : Names, old_sub_category : TableValues,
     old_item_category : TableValues, new_category : TableValues,
     new_sub_category : TextValues, new_item_category : TableValues]

\* the category columns of the stored tickets: any three values in the first
\* row, nothing or one name throughout in the others
StoredCategories(r) ==
    IF r = 1
    THEN {Uncategorised(c, s, i) : c \in TextValues, s \in TextValues, i \in TextValues}
    ELSE {Uncategorised(NULL, NULL, NULL)}
             \cup {Uncategorised(n, n, n) : n \in Names}

\* A store before prepare(): tickets that are pending, but for at most one
\* that an earlier prepare() classified, and lookup tables of at most one row.
InitPrepare ==
    /\ CtlConstructed /\ headroom = MaxHeadroom
    /\ ApiConstructed
    /\ ProcConstructed
    /\ strategy = "update"
    /\ random_order = FALSE
    /\ \E done \in Rows \cup {NoRow} :
           tickets = [r \in Rows |->
               IF r = done THEN FreshRow("skipped") ELSE FreshRow(NullState)]
    /\ categories \in [Rows -> UNION {StoredCategories(r) : r \in Rows}]
    /\ \A r \in Rows : categories[r] \in StoredCategories(r)
    /\ valid_categories \in {{}} \cup {{v} : v \in ValidRows}
    /\ category_mappings \in {{}} \cup {{m} : m \in MappingRows}

NextPrepare ==
    \/ prepare
    \/ \E r \in Rows : perform_api_action(r)

SpecPrepare == InitPrepare /\ [][NextPrepare]_vars

InFlight(t) == tpc[t] = "flight"
Blocked(t) == tpc[t] \in WaitStates
DesignatedProbes ==
    {t \in Threads : tpc[t] = "wait_probe" \/ (InFlight(t) /\ adm[t].kind = "probe")}

(***************************************************************************)
(* C4: block_until_ready admits a request while limit_remaining -          *)
(* in_flight <= 0 only for the single designated probe; every non-probe    *)
(* admission happens with limit_remaining - in_flight > headroom.          *)
(***************************************************************************)
C4_AdmissionNeedsQuotaOrProbe ==
    /\ \A t \in Threads : InFlight(t) =>
           /\ (adm[t].low => adm[t].kind = "probe")
           /\ (adm[t].kind # "probe" => ~adm[t].near)
    /\ Cardinality(DesignatedProbes) <= 1

C4_Witness ==
    \E t, u \in Threads :
        /\ InFlight(t) /\ adm[t].kind = "probe" /\ adm[t].low
        /\ Blocked(u)

(***************************************************************************)
(* C5: after a response carrying Retry-After: k is ingested at time t, no  *)
(* worker is admitted before t + k, whichever wait it was in and whatever  *)
(* further responses are ingested during the pause.                        *)
(***************************************************************************)
C5_NoAdmissionBeforeRetryAfterElapsed ==
    \A t \in Threads : InFlight(t) => ~adm[t].early

\* What the controller does guarantee: no admission while its own deadline
\* retry_after_timestamp, as last written, lies in the future.
C5_NoAdmissionWhilePaused ==
    \A t \in Threads : InFlight(t) => ~adm[t].paused

(***************************************************************************)
(* C6: while limit_remaining - in_flight <= headroom every admission is a  *)
(* probe made with in_flight = 0 and no other probe scheduled; no second   *)
(* request is admitted while a probe is unanswered.                        *)
(***************************************************************************)
C6_OnlyOneProbeNearExhaustion ==
    /\ \A t \in Threads : (InFlight(t) /\ adm[t].near) =>
           /\ adm[t].kind = "probe"
           /\ adm[t].alone
    /\ \A t \in Threads : (InFlight(t) /\ adm[t].kind = "probe") =>
           /\ requests_in_flight = 1
           /\ ~probe_scheduled
    /\ \A t \in Threads : tpc[t] = "wait_probe" =>
           /\ requests_in_flight = 0
           /\ \A u \in Threads \ {t} : tpc[u] # "wait_probe"

C6_Witness ==
    \E t, u \in Threads :
        /\ InFlight(t) /\ adm[t].kind = "probe"
        /\ tpc[u] = "wait_indef"

(***************************************************************************)
(* C7: with every admitted request answered by one update_and_notify, the  *)
(* controller makes progress: whenever a worker is blocked and nothing is  *)
(* in flight, a worker is eventually admitted; and no state has a worker   *)
(* in the indefinite wait with in_flight = 0, no probe scheduled and no    *)
(* wake-up (notification or running timeout) pending.                      *)
(***************************************************************************)
WakeUpPending ==
    \E u \in Threads : Blocked(u) /\ (notified[u] \/ timer[u] >= 0)

C7_NoLostWakeUp ==
    (\E t \in Threads : tpc[t] = "wait_indef" /\ ~notified[t]) =>
        (requests_in_flight > 0 \/ probe_scheduled \/ WakeUpPending)

C9_InFlightCountsUnanswered ==
    /\ requests_in_flight = Cardinality({t \in Threads : InFlight(t)})
    /\ requests_in_flight >= 0
    /\ requests_in_flight <= NumThreads

C9_Witness ==
    /\ requests_in_flight >= 2
    /\ \E t \in Threads : InFlight(t) /\ adm[t].kind = "normal" /\ ~adm[t].alone

(***************************************************************************)
(* C1: when a run() called without a limit has returned, every row that    *)
(* was ready at its start has been claimed exactly once and is updated     *)
(* (update), done (create) or failed; and no row is sent to the API twice  *)
(* in one run.                                                             *)
(***************************************************************************)
HasOutcome(row) ==
    IF strategy = "update" THEN row.update_state \in {"updated", "failed"}
    ELSE row.response_status_code # NULL \/ row.error_message # NULL

UncappedRunReturned == ~running /\ runs > 0 /\ run_limit = None

C1_UncappedRunFinishesEveryReadyRow ==
    /\ \A r \in Rows : sent[r] <= 1
    /\ UncappedRunReturned =>
           \A r \in ready_at_start : claims[r] = 1 /\ HasOutcome(tickets[r])

\* The same for the runs of a processor on which no limit was ever set.
C1_FinishesEveryReadyRowUnlessLimitKept ==
    /\ \A r \in Rows : sent[r] <= 1
    /\ (UncappedRunReturned /\ iteration_limit = None) =>
           \A r \in ready_at_start : claims[r] = 1 /\ HasOutcome(tickets[r])

(***************************************************************************)
(* C2: no row is returned to two callers of _fetch_and_lock_next_item:     *)
(* between a worker's SELECT and its commit of the in-progress mark the    *)
(* row stays claimable and no other worker has selected it, two workers    *)
(* never hold the same row, and no row is claimed twice in one run.        *)
(***************************************************************************)
Selected(w) == wpc[w] = "mark"
Holds(w) == wpc[w] = "api"

C2_NoRowReturnedToTwoCallers ==
    /\ \A w \in Workers : Selected(w) =>
           /\ Claimable(tickets[ticket_row[w]])
           /\ \A u \in Workers \ {w} :
                  (Selected(u) \/ Holds(u)) => ticket_row[u] # ticket_row[w]
    /\ \A w, u \in Workers :
           (w # u /\ Holds(w) /\ Holds(u)) => ticket_row[w] # ticket_row[u]
    /\ \A r \in Rows : claims[r] <= 1

\* One worker is between its SELECT and its commit while another has a row
\* and a third row is still there to be claimed.
C2_Witness ==
    \E w, u \in Workers :
        /\ Selected(w)
        /\ Holds(u)
        /\ ClaimableRows \ {ticket_row[w]} # {}

(***************************************************************************)
(* C3: _fetch_and_lock_next_item never returns a row in a terminal state:  *)
(* the row it marks is, in the store at that moment, not updated, failed,  *)
(* skipped or unmapped (update), and has no recorded outcome (create).     *)
(***************************************************************************)
Terminal(row) ==
    IF strategy = "update"
    THEN row.update_state \in {"updated", "failed", "skipped", "unmapped"}
    ELSE row.response_status_code # NULL \/ row.error_message # NULL

C3_NeverReturnsTerminalRow ==
    \A w \in Workers : Holds(w) => ~Terminal(claimed_from[w])

\* A row is returned while a row the ordering puts before it is terminal.
C3_Witness ==
    \E w \in Workers, r \in Rows :
        /\ Holds(w)
        /\ r > ticket_row[w]
        /\ Terminal(tickets[r])

(***************************************************************************)
(* C8: every HTTP attempt of _request is preceded by one admission of the  *)
(* controller and followed by one ingestion of its response: a thread has  *)
(* a call outstanding only while block_until_ready has admitted it and     *)
(* update_and_notify has not yet been called for it.                       *)
(***************************************************************************)
C8_AttemptPairedWithAdmission ==
    \A c \in Threads : cpc[c] = "await" => InFlight(c)

(***************************************************************************)
(* C10: a request whose first j attempts are answered 429 and whose next   *)
(* attempt is answered otherwise takes min(j, max_retries) + 1 HTTP calls; *)
(* it ends with that answer when j <= max_retries and with the rate-limit  *)
(* error after max_retries + 1 calls otherwise.  A request that has ended  *)
(* without a transport error has had every call answered, so j is at least *)
(* the number of 429 answers it received.                                  *)
(***************************************************************************)
Answered(c) == cpc[c] = "done" /\ outcome[c] # "transport_error"

C10_CallsPerRequest ==
    \A c \in Threads : Answered(c) =>
        /\ http_calls[c] = Min(answers_429[c], max_retries[c]) + 1
        /\ answers_429[c] <= max_retries[c] =>
               outcome[c] \in {"returned", "http_error"}
        /\ answers_429[c] > max_retries[c] => outcome[c] = "rate_limit_error"

\* The same count for the requests that did not die in the deadline check.
C10_CallsUnlessDeadlineCleared ==
    \A c \in Threads : (Answered(c) /\ outcome[c] # "type_error") =>
        /\ http_calls[c] = Min(answers_429[c], max_retries[c]) + 1
        /\ answers_429[c] <= max_retries[c] =>
               outcome[c] \in {"returned", "http_error"}
        /\ answers_429[c] > max_retries[c] => outcome[c] = "rate_limit_error"

\* ---- C16 ----
RECURSIVE SumUpTo(_, _)
SumUpTo(f, n) == IF n = 0 THEN 0 ELSE f[n] + SumUpTo(f, n - 1)

\* rows claimed, and items sent to the API, since the current run started
RowsClaimed == SumUpTo(claims, NumRows)
ItemsSent == SumUpTo(sent, NumRows)

\* C16: during and after run(limit = L) with L >= 1, whatever the number of
\* workers and however their reservations interleave, at most L rows have
\* been claimed and at most L items have been sent to the API.
C16_AtMostLimitClaimedAndSent ==
    (runs > 0 /\ Truthy(run_limit)) =>
        /\ RowsClaimed <= run_limit
        /\ ItemsSent <= run_limit
        /\ iteration_count <= run_limit

\* a capped run used its whole limit, a second worker was turned away by the
\* reservation, and claimable rows are left over
C16_Witness ==
    /\ running
    /\ Truthy(run_limit)
    /\ RowsClaimed = run_limit
    /\ ItemsSent = run_limit
    /\ ClaimableRows # {}
    /\ \E w \in Workers, v \in Workers :
        w # v /\ wpc[w] = "exit" /\ wpc[v] \in {"count", "exit"}

\* ---- C19 ----
\* workers that have passed the reservation of their current iteration
PastReservation == {w \in Workers : wpc[w] \in {"begin", "mark", "api", "exit"}}

\* C19: in a run that starts with no claimable row no worker begins a second
\* loop iteration (every reservation belongs to a different worker, which then
\* finds no row and leaves), no row is claimed and no API action is issued.
C19_NoRowNoSecondIterationNoCall ==
    (runs > 0 /\ ready_at_start = {}) =>
        /\ \A w \in Workers : wpc[w] \in {"idle", "count", "begin", "exit"}
        /\ running => iteration_count <= Cardinality(PastReservation)
        /\ RowsClaimed = 0
        /\ ItemsSent = 0

\* every worker of a run without claimable rows made its one reservation,
\* found no row and left
C19_Witness ==
    /\ running
    /\ ready_at_start = {}
    /\ iteration_count = NumThreads
    /\ \A w \in Threads : wpc[w] = "exit"

\* ---- C20 ----
\* a step of retry_failed(): it is the only step that leaves a row count
RetryStep == ~running /\ quantity_to_retry' # None

\* a row on which a failure is recorded
FailedRow(row) ==
    IF strategy = "update" THEN row.update_state = "failed"
    ELSE row.error_message # NULL

RowsChanged == {r \in Rows : tickets'[r] # tickets[r]}

ClaimContended(w) == wpc[w] = "begin" /\ db_lock \notin {NoWorker, w}

\* C15: a worker whose claim meets the write lock of another worker while
\* claimable rows remain does not leave its loop on that account.
C15_ContentionNeverEndsWorker ==
    [][\A w \in Workers :
          (ClaimContended(w) /\ ClaimableRows # {}) => wpc'[w] # "exit"]_vars

\* ---- C13 ----
\* worker w stands at the reservation with the limit used up
StoppedByLimit(w) ==
    wpc[w] = "count" /\ Truthy(iteration_limit) /\ LimitReached

\* C13: whatever the API action of a claimed item raises, the worker records
\* an outcome on the item and goes on to its next iteration; and a worker
\* leaves its loop only when the limit is reached or no row is claimable.
C13_ErrorsRecordedAndLoopLeftOnlyWhenDone ==
    [][\A w \in Workers :
          /\ (wpc[w] = "api" /\ wpc'[w] # "api") =>
                 /\ wpc'[w] = "count"
                 /\ HasOutcome(tickets'[ticket_row[w]])
          /\ (wpc[w] # "exit" /\ wpc'[w] = "exit") =>
                 StoppedByLimit(w) \/ ClaimableRows = {}]_vars

\* The statement of C13 with the contended claim added to the ways out of the
\* loop; this one holds.
C13_LoopLeftOnlyWhenDoneOrContended ==
    [][\A w \in Workers :
          /\ (wpc[w] = "api" /\ wpc'[w] # "api") =>
                 /\ wpc'[w] = "count"
                 /\ HasOutcome(tickets'[ticket_row[w]])
          /\ (wpc[w] # "exit" /\ wpc'[w] = "exit") =>
                 StoppedByLimit(w) \/ ClaimableRows = {} \/ ClaimContended(w)]_vars

\* ---- C17 ----
\* C17: run(limit = 0) claims no row and issues no API action, whatever the
\* number of claimable rows and of workers.
C17_ZeroLimitClaimsNothing ==
    (runs > 0 /\ run_limit = 0) =>
        /\ RowsClaimed = 0
        /\ ItemsSent = 0
        /\ \A w \in Workers : wpc[w] \notin {"mark", "api"}

\* ---- C18 ----
\* a run whose limit exceeds the number of rows that were claimable at its start
AmplyLimitedRun ==
    runs > 0 /\ Truthy(run_limit) /\ run_limit > Cardinality(ready_at_start)

\* C18: when a run with a limit above the number of its claimable rows has
\* returned, every row that was claimable at its start has been processed.
C18_AmplyLimitedRunProcessesEveryReadyRow ==
    (AmplyLimitedRun /\ ~running) =>
        \A r \in ready_at_start : HasOutcome(tickets[r])

\* The termination half of C18 under SpecProcLimitsFair: every run returns.
C18_EveryRunReturns == running ~> ~running

\* ---- C14 ----
FailedWorkers == {w \in Workers : wpc[w] = "failed"}
Survivors == {w \in Workers : wpc[w] = "exit"}
AllWorkersDone == \A w \in Workers : wpc[w] \in {"idle", "exit", "failed"}

\* the run has no more reservations to give
LimitUsedUp == Truthy(iteration_limit) /\ LimitReached

\* C14: when one worker of a run has failed with an unexpected exception and
\* all workers have finished, run() can return, and the surviving workers
\* have left no row claimable (short of the limit) and have recorded an
\* outcome on every row they claimed: only the failed worker's row may be
\* left without one.
C14_SurvivorsFinishTheRun ==
    (running /\ AllWorkersDone /\ Cardinality(FailedWorkers) = 1
            /\ Survivors # {}) =>
        /\ ENABLED RunReturn
        /\ ClaimableRows = {} \/ LimitUsedUp
        /\ Cardinality({r \in Rows : claims[r] > 0 /\ ~HasOutcome(tickets[r])}) <= 1

\* ---- C11 ----
\* the _request call of worker w's item has ended; the worker is about to
\* record the result
CallEnded(w) == wpc[w] = "api" /\ cpc[w] = "done"

\* worker w records the result of its item in this step
Records(w) == CallEnded(w) /\ wpc'[w] # "api"

\* C11: an item whose request ran out of 429 retries is recorded as failed
\* with response_status_code 429, and its worker goes on to the next
\* iteration.
C11_ExhaustionRecordedAs429 ==
    [][\A w \in Threads :
          (Records(w) /\ outcome[w] = "rate_limit_error") =>
              /\ FailedRow(tickets'[ticket_row[w]])
              /\ tickets'[ticket_row[w]].response_status_code = 429
              /\ wpc'[w] = "count"]_vars

\* What the code does instead: the failure is recorded without a status.
C11_ExhaustionRecordedWithoutStatus ==
    [][\A w \in Threads :
          (Records(w) /\ outcome[w] = "rate_limit_error") =>
              /\ http_calls[w] = max_retries[w] + 1
              /\ FailedRow(tickets'[ticket_row[w]])
              /\ tickets'[ticket_row[w]].response_status_code = NULL
              /\ tickets'[ticket_row[w]].error_message = ExceptionText
              /\ wpc'[w] = "count"]_vars

\* ---- C12 ----
\* the latest response of worker w's request has an error status other than 429
ErrorAnswered(w) ==
    CallEnded(w) /\ response_status[w] >= 400 /\ response_status[w] # 429

\* C12: a response with a 4xx or 5xx status other than 429 ends the request
\* with the HTTP error at that call (every earlier call of the request was
\* answered 429), and the item is recorded as failed with that status and
\* with the response body as error_message.
C12_ErrorStatusEndsRequestAndIsRecorded ==
    [][\A w \in Threads :
          /\ ErrorAnswered(w) =>
                 /\ outcome[w] = "http_error"
                 /\ http_calls[w] = answers_429[w] + 1
          /\ (ErrorAnswered(w) /\ Records(w)) =>
                 /\ FailedRow(tickets'[ticket_row[w]])
                 /\ tickets'[ticket_row[w]].response_status_code =
                        response_status[w]
                 /\ tickets'[ticket_row[w]].error_message = ResponseBody
                 /\ failure_count' = failure_count + 1
                 /\ UNCHANGED success_count]_vars

\* a server error answered a first call and is on the row, with the body, and
\* the worker is back at the top of its loop
C12_Witness ==
    /\ running
    /\ failure_count > 0
    /\ \E w \in Threads : wpc[w] = "count"
    /\ \E r \in Rows :
        /\ sent[r] = 1
        /\ FailedRow(tickets[r])
        /\ tickets[r].response_status_code = 500
        /\ tickets[r].error_message = ResponseBody

\* ---- C22 ----
\* C22: the counters of a run count that run's items only: from its start on,
\* success_count + failure_count is the number of items the run has sent, so
\* a run starts with both at zero.
C22_CountersCountThisRunOnly ==
    runs > 0 => success_count + failure_count = ItemsSent


\* ---- C21 ----
\* the fields the reset of retry_failed clears
Cleared(row) ==
    /\ row.request_timestamp = NULL
    /\ row.response_status_code = NULL
    /\ row.error_message = NULL

\* C21: retry_failed of the update strategy clears request_timestamp,
\* response_status_code and error_message of every failed row and leaves the
\* row claimable, so that the run it starts has every such row to re-claim.
C21_RetryMakesFailedRowsClaimable ==
    [][(RetryStep /\ strategy = "update") =>
          \A r \in Rows : FailedRow(tickets[r]) =>
              /\ Cleared(tickets'[r])
              /\ Claimable(tickets'[r])
              /\ r \in ready_at_start']_vars

\* What the reset does to a failed row of the update strategy: the fields are
\* cleared and the row is left unclassified, which no claim selects.
C21_RetryLeavesFailedRowsUnclassified ==
    [][(RetryStep /\ strategy = "update") =>
          \A r \in Rows : FailedRow(tickets[r]) =>
              /\ Cleared(tickets'[r])
              /\ tickets'[r].update_state = NullState
              /\ ~Claimable(tickets'[r])]_vars


\* ---- C23 ----
\* a row left claimed with no recorded outcome
ClaimedWithoutOutcome(row) ==
    /\ IF strategy = "update" THEN row.update_state = "in-progress"
       ELSE row.request_timestamp # NULL
    /\ row.response_status_code = NULL
    /\ row.error_message = NULL

\* C23: retry_failed resets every row that the death of its worker left
\* claimed with no recorded outcome, so that the run it starts claims the row
\* again, under both strategies.
C23_RetryResetsRowsLeftInProgress ==
    [][RetryStep =>
          \A r \in Rows : ClaimedWithoutOutcome(tickets[r]) =>
              /\ Claimable(tickets'[r])
              /\ quantity_to_retry' > 0]_vars

\* What retry_failed does to such a row, under both strategies: nothing.
C23_RetryLeavesRowsInProgress ==
    [][RetryStep =>
          \A r \in Rows : ClaimedWithoutOutcome(tickets[r]) =>
              /\ tickets'[r] = tickets[r]
              /\ ~Claimable(tickets'[r])]_vars


\* ---- C24 ----
\* a row whose request failed without an HTTP status: the failure is recorded
\* with the text of the exception and no status code
FailedWithoutStatus(row) ==
    /\ FailedRow(row)
    /\ row.response_status_code = NULL
    /\ row.error_message = ExceptionText

\* C24: a row whose request failed with a transport error is reset by
\* retry_failed and is claimable for the run it starts, under both strategies.
C24_TransportFailuresAreRetried ==
    [][RetryStep =>
          \A r \in Rows : FailedWithoutStatus(tickets[r]) =>
              /\ Claimable(tickets'[r])
              /\ quantity_to_retry' > 0]_vars

\* The first half of C24 holds: an API action that raises without a response
\* is counted as a failure and recorded on the row, with no status code.
C24_TransportErrorRecordedAsFailure ==
    [][\A w \in Threads :
          (wpc[w] = "api" /\ wpc'[w] = "count"
              /\ tickets'[ticket_row[w]].response_status_code = NULL) =>
              /\ FailedWithoutStatus(tickets'[ticket_row[w]])
              /\ failure_count' = failure_count + 1]_vars

\* What retry_failed of the create strategy does to such a row: nothing.
C24_ImporterRetrySkipsRowsWithoutStatus ==
    [][(RetryStep /\ strategy = "create") =>
          \A r \in Rows : FailedWithoutStatus(tickets[r]) =>
              tickets'[r] = tickets[r] /\ ~Claimable(tickets'[r])]_vars


\* ---- C27 ----
\* a run of a pool of one worker that takes its rows in id order
OneWorkerOrderedRun ==
    /\ running
    /\ ~random_order
    /\ \A w \in Workers : w # 1 => wpc[w] = "idle"

\* every row of counter function f that this step counts lies below every
\* row f has counted since the run started
BelowEarlier(f, g) ==
    \A r \in Rows : g[r] > f[r] => (f[r] = 0 /\ \A q \in Rows : f[q] > 0 => r < q)

\* every call the run has made was answered with success
EveryCallSucceeded ==
    \A r \in Rows : sent[r] > 0 => tickets[r].response_status_code \in SuccessStatuses

\* C27: in a run without a limit, with one worker and no randomization, the
\* rows are claimed, and their calls issued, in strictly descending id order;
\* and when every call succeeded, the run returns with success_count equal to
\* the number of rows that were ready and failure_count = 0.
C27_DescendingOrderAndAllSucceeded ==
    [][(OneWorkerOrderedRun /\ run_limit = None) =>
          /\ BelowEarlier(claims, claims')
          /\ BelowEarlier(sent, sent')
          /\ (~running' /\ EveryCallSucceeded) =>
                 /\ success_count = Cardinality(ready_at_start)
                 /\ failure_count = 0]_vars

\* The same on a processor that runs for the first time.
C27_FirstRunDescendingOrderAndAllSucceeded ==
    [][(OneWorkerOrderedRun /\ run_limit = None /\ runs = 1) =>
          /\ BelowEarlier(claims, claims')
          /\ BelowEarlier(sent, sent')
          /\ (~running' /\ EveryCallSucceeded) =>
                 /\ success_count = Cardinality(ready_at_start)
                 /\ failure_count = 0]_vars

\* The order alone, in every run of one worker without randomization.
C27_DescendingOrder ==
    [][OneWorkerOrderedRun =>
          /\ BelowEarlier(claims, claims')
          /\ BelowEarlier(sent, sent')]_vars


\* ---- C28 ----
\* the outcome columns of a row
OutcomeFields(row) == <<row.response_status_code, row.error_message>>

\* C28: during run() of the update strategy every change of a row is a step
\* ready -> in-progress that writes no outcome, or a step in-progress ->
\* updated or in-progress -> failed: no row leaves updated, failed, skipped or
\* unmapped, none goes back from in-progress to ready, and no outcome is
\* written to a row that is not in-progress.
C28_RowsMoveForwardOnly ==
    [][(running /\ strategy = "update") =>
          \A r \in RowsChanged :
              \/ /\ tickets[r].update_state = "ready"
                 /\ tickets'[r].update_state = "in-progress"
                 /\ OutcomeFields(tickets'[r]) = OutcomeFields(tickets[r])
              \/ /\ tickets[r].update_state = "in-progress"
                 /\ tickets'[r].update_state \in {"updated", "failed"}]_vars

\* a run under way that has taken rows along both paths and holds a third
\* row in progress
C28_Witness ==
    /\ running
    /\ strategy = "update"
    /\ \E r \in Rows : tickets[r].update_state = "updated"
    /\ \E r \in Rows : tickets[r].update_state = "failed"
    /\ \E r \in Rows : tickets[r].update_state = "in-progress"


\* ---- C30 ----
\* C30: in every reachable state of the controller probe_wait_seconds lies
\* between 1 and 60, under the doubling of the probe admissions and the
\* resets of the normal regime.
C30_ProbeWaitWithinBounds ==
    /\ MinProbeWait <= probe_wait_seconds
    /\ probe_wait_seconds <= MaxProbeWait

\* The steps that change probe_wait_seconds: a probe admission doubles it
\* with the cap, every other change is the reset of the normal regime.
C30_ProbeWaitChanges ==
    [][probe_wait_seconds' # probe_wait_seconds =>
          \/ /\ \E t \in Threads : tpc[t] = "wait_probe" /\ adm'[t].kind = "probe"
             /\ probe_wait_seconds' = Min(2 * probe_wait_seconds, MaxProbeWait)
          \/ probe_wait_seconds' =
                 Max(MinProbeWait, SecondsPerWindow \div server_ratelimit_total)]_vars

\* The reset stays within the bounds for every total from 1 up to the
\* controller's initial one.
C30_ResetWithinBoundsForEveryTotal ==
    \A total \in 1..InitialRatelimit :
        /\ MinProbeWait <= ProbeWaitReset(total)
        /\ ProbeWaitReset(total) <= MaxProbeWait

\* a probe has just been admitted with the doubling cut off at the cap
C30_Witness ==
    /\ probe_wait_seconds = MaxProbeWait
    /\ \E t \in Threads : adm[t].kind = "probe" /\ tpc[t] = "flight"


\* ---- C29 ----
\* C29: no call of the controller raises on an invalid header value: an
\* update_and_notify with a non-integer Retry-After, x-ratelimit-remaining or
\* x-ratelimit-total, or with an x-ratelimit-total of 0, returns and leaves
\* the quota fields as they were, and no block_until_ready raises afterwards.
C29_InvalidHeadersIgnored ==
    [][\A t \in Threads :
          /\ tpc'[t] # "raised"
          /\ \A headers \in InvalidHeaders : update_and_notify(t, headers) =>
                 UNCHANGED <<server_ratelimit_remaining,
                             server_ratelimit_total>>]_vars

\* The part of C29 that holds: a Retry-After that is not an integer is passed
\* over, no pause is set and the quota fields stay as they were.
C29_MalformedRetryAfterIgnored ==
    [][\A t \in Threads :
          update_and_notify(t, [retry_after |-> Malformed, remaining |-> Absent,
                                total |-> Absent]) =>
              /\ tpc'[t] = "out"
              /\ UNCHANGED <<server_ratelimit_remaining, server_ratelimit_total,
                             pause_left>>]_vars

\* An x-ratelimit-total of 0 is stored, and from then on a call of
\* block_until_ready that gets past the pause check raises.
C29_ZeroTotalStoredAndFatal ==
    [][\A t \in Threads :
          /\ update_and_notify(t, [retry_after |-> Absent, remaining |-> Absent,
                                   total |-> 0]) =>
                 server_ratelimit_total' = 0
          /\ (block_until_ready(t) /\ server_ratelimit_total = 0 /\ ~Paused) =>
                 tpc'[t] = "raised"]_vars


\* ---- C26 ----
\* the state C26 gives a pending ticket with category columns c
ClassifiedByTriple(c) ==
    IF Triple(c) \in valid_categories \/ category_empty(c) THEN "skipped"
    ELSE IF \E m \in category_mappings :
                /\ m.old_category = c.category
                /\ m.old_sub_category = c.sub_category
                /\ m.old_item_category = c.item_category
         THEN "ready"
    ELSE "unmapped"

\* the target columns of c are those of a mapping row for its triple
TargetsCopied(c) ==
    \E m \in category_mappings :
        /\ m.old_category = c.category
        /\ m.old_sub_category = c.sub_category
        /\ m.old_item_category = c.item_category
        /\ c.new_category = m.new_category
        /\ c.new_sub_category = m.new_sub_category
        /\ c.new_item_category = m.new_item_category

\* C26: prepare() leaves every row that was not pending as it was, and moves
\* every pending row to skipped if its category triple is in the valid set
\* or all three fields are null, otherwise to ready with the target fields of
\* the mapping row for its triple when there is one, else to unmapped; no
\* row is pending afterwards.
C26_PrepareClassifiesByTriple ==
    [][prepare =>
          \A r \in Rows :
              IF Pending(r)
              THEN /\ tickets'[r].update_state = ClassifiedByTriple(categories[r])
                   /\ tickets'[r].update_state = "ready" =>
                          TargetsCopied(categories'[r])
                   /\ Triple(categories'[r]) = Triple(categories[r])
              ELSE /\ tickets'[r] = tickets[r]
                   /\ categories'[r] = categories[r]]_vars

\* What prepare() does hold to: non-pending rows stay as they were, every
\* pending row gets one of the three states, and the state is skipped exactly
\* when validate_category accepts the columns or all three are null.
C26_PrepareClassifiesPendingRowsOnly ==
    [][prepare =>
          \A r \in Rows :
              IF Pending(r)
              THEN /\ tickets'[r].update_state \in PreparedStates
                   /\ tickets'[r].update_state = "skipped" <=>
                          \/ validate_category(categories[r].category,
                                               categories[r].sub_category,
                                               categories[r].item_category)
                          \/ category_empty(categories[r])
              ELSE /\ tickets'[r] = tickets[r]
                   /\ categories'[r] = categories[r]]_vars


\* ---- C25 ----
\* the items C25 expects in the body for target columns c: the non-null ones
NonNullTargets(c) ==
    {item \in {<<"category", c.new_category>>,
               <<"sub_category", c.new_sub_category>>,
               <<"item_category", c.new_item_category>>} : item[2] # NULL}

\* C25: the body of the update request built for a row that prepare() marked
\* ready holds exactly the non-null components of the row's target triple: no
\* null component is sent and no non-null component is left out.
C25_BodyIsTheNonNullTargets ==
    ticket_update_payload.id # NoRow =>
        ticket_update_payload.body =
            NonNullTargets(categories[ticket_update_payload.id])

\* What the body does hold: the category whatever it is, and the sub_category
\* and item_category that are neither null nor empty.
C25_BodyIsCategoryAndTruthyTargets ==
    ticket_update_payload.id # NoRow =>
        LET c == categories[ticket_update_payload.id] IN
            /\ <<"category", c.new_category>> \in ticket_update_payload.body
            /\ \A item \in ticket_update_payload.body :
                   item[1] # "category" => Truthy(item[2])
            /\ \A item \in NonNullTargets(c) :
                   item[2] # EmptyText => item \in ticket_update_payload.body
            /\ (c.new_category # NULL /\ c.new_sub_category # EmptyText) =>
                   ticket_update_payload.body = NonNullTargets(c)


\* ---- C31 ----
\* header sets with a Retry-After that parses, among them one that also
\* carries x-ratelimit-remaining and x-ratelimit-total
RetryAfterHeaders == {headers \in Headers : headers.retry_after \in RetryAfters}

\* C31: update_and_notify with a parseable Retry-After sets the pause to its
\* seconds and server_ratelimit_remaining to 0 and notifies every waiting
\* thread; server_ratelimit_total, probe_wait_seconds and probe_scheduled stay
\* as they were, also when the response carries the x-ratelimit headers.
C31_RetryAfterFrame ==
    [][\A t \in Threads : \A headers \in RetryAfterHeaders :
          update_and_notify(t, headers) =>
              /\ pause_left' = headers.retry_after
              /\ server_ratelimit_remaining' = 0
              /\ \A u \in Threads : tpc[u] \in WaitStates => notified'[u]
              /\ UNCHANGED <<server_ratelimit_total, probe_wait_seconds,
                             probe_scheduled>>]_vars

\* a Retry-After has just been ingested while another thread was waiting for
\* its pacing interval: the pause is set, the quota is zero, the waiting
\* thread is notified and the total is the one from before
C31_Witness ==
    /\ pause_left = MaxRetryAfter
    /\ server_ratelimit_remaining = 0
    /\ server_ratelimit_total = InitialRatelimit
    /\ probe_wait_seconds = MinProbeWait
    /\ \E u \in Threads : tpc[u] = "wait_pace" /\ notified[u]


\* ---- C32 ----
\* thread t is admitted in the normal regime by this step
NormalAdmission(t) == adm[t].kind = "none" /\ adm'[t].kind = "normal"

\* C32: a thread is admitted in the normal regime only when the time since
\* the previous admission is at least 60 / total times the multiplier, which
\* is 1 above 3 * headroom and 3 * headroom / max(1, effective remaining)
\* otherwise; so it is never less than 60 / total.
C32_NormalAdmissionsArePaced ==
    [][\A t \in Threads : NormalAdmission(t) =>
          /\ EffectiveRemaining > headroom
          /\ IF EffectiveRemaining > BrakingFactor * headroom
             THEN since_last_request * server_ratelimit_total >= SecondsPerWindow
             ELSE since_last_request * server_ratelimit_total
                      * Max(1, EffectiveRemaining)
                  >= SecondsPerWindow * BrakingFactor * headroom
          /\ since_last_request * server_ratelimit_total >= SecondsPerWindow]_vars

\* a second thread has just been admitted in the normal regime, below the
\* braking threshold, while the first is still in flight
C32_Witness ==
    /\ headroom > 0
    /\ since_last_request = 0
    /\ requests_in_flight = NumThreads
    /\ server_ratelimit_total = 30
    /\ server_ratelimit_remaining - (requests_in_flight - 1)
           <= BrakingFactor * headroom
    /\ \A t \in Threads : tpc[t] = "flight" /\ adm[t].kind = "normal"


\* ---- C33 ----
\* threads inside the probe wait
ScheduledProbes == {t \in Threads : tpc[t] = "wait_probe"}

\* C33: at most one thread is inside the probe wait, and probe_scheduled is
\* true exactly while one is: it is false once the wait is over, whether it
\* ended by its timeout, by a notification or by an exception.
C33_ProbeFlagMeansOneProbeWaiting ==
    /\ Cardinality(ScheduledProbes) <= 1
    /\ probe_scheduled <=> ScheduledProbes # {}

\* the probe wait of one thread ended in an exception, and another thread
\* has since become the scheduled probe
C33_Witness ==
    \E t, u \in Threads :
        /\ tpc[t] = "raised"
        /\ tpc[u] = "wait_probe"
        /\ probe_scheduled


\* ---- C34 ----
\* threads this step notifies
Woken == {u \in Workers : notified'[u] /\ ~notified[u]}

\* C34: update_and_notify without a Retry-After notifies every waiting thread
\* when server_ratelimit_remaining went up or the remaining quota less the
\* requests in flight is above the headroom; otherwise it notifies at most
\* one waiting thread.
C34_WakeAllOrOne ==
    [][\A t \in Workers : \A headers \in QuotaHeaders :
          update_and_notify(t, headers) =>
              IF \/ server_ratelimit_remaining' > server_ratelimit_remaining
                 \/ server_ratelimit_remaining' - requests_in_flight' > headroom
              THEN Woken = {u \in Workers : Waiting(u)}
              ELSE /\ Woken \subseteq {u \in Workers : Waiting(u)}
                   /\ Cardinality(Woken) <= 1]_vars

\* two threads were waiting for their pacing interval, and a response that
\* left the quota above the headroom without raising it has notified both
C34_Witness ==
    /\ server_ratelimit_remaining = MaxRemaining
    /\ server_ratelimit_remaining - requests_in_flight > headroom
    /\ \E u, v \in Workers :
           /\ u # v
           /\ tpc[u] = "wait_pace" /\ notified[u]
           /\ tpc[v] = "wait_pace" /\ notified[v]


\* ---- C35 ----
\* workers about to send the request of a row the server has accepted
Resending == {w \in Workers : Holds(w) /\ ticket_row[w] \in accepted}

\* C35: a row whose API action returned a success response is never written
\* as failed, and no worker sends its request again.
C35_AcceptedNeverRecordedAsFailed ==
    /\ \A r \in accepted : ~FailedRow(tickets[r])
    /\ Resending = {}

\* What holds when the try block never raises after the API action returned:
\* the rows with a failure on record are rows the server did not accept.
C35_AcceptedNeverFailedUnlessHandlerRaises ==
    /\ \A r \in accepted : ~FailedRow(tickets[r])
    /\ \A r \in accepted : tickets[r].response_status_code \in SuccessStatuses
    /\ Resending = {}

\* What holds also when it raises: no accepted request is sent again.
C35_AcceptedNeverResent == Resending = {}


\* ---- C36 ----
\* C36: when a run() that was given no limit has returned, also one started
\* by retry_failed() and whatever the runs before it were given, no claimable
\* row is left in the store.
C36_RunWithoutLimitLeavesNoClaimableRow ==
    UncappedRunReturned => ClaimableRows = {}

\* What holds instead: a run without a limit leaves claimable rows only when
\* an earlier run of the processor has set iteration_limit, and then it has
\* reserved as many iterations as that limit allows.
C36_ClaimableRowsLeftOnlyUnderKeptLimit ==
    (UncappedRunReturned /\ ClaimableRows # {}) =>
        /\ runs > 1
        /\ iteration_limit # None
        /\ iteration_count >= iteration_limit


\* ---- C37 ----
\* a 429's deadline is set and has not passed
DeadlinePending == rate_limit_hit /\ retry_after_until > 0

\* C37: with several callers of one FreshserviceApi, no caller's deadline
\* check meets a deadline another caller has cleared, no deadline is cleared
\* before it has passed, and no call goes out while a deadline is pending.
C37_ClientPauseIsRaceFree ==
    [][/\ \A c \in Threads : outcome'[c] # "type_error"
       /\ retry_after_until' = NoDeadline => ~DeadlinePending
       /\ \A c \in Threads : Send(c) => ~DeadlinePending]_vars

\* What holds under concurrent callers: the caller that clears the two
\* fields has slept out the deadline it read itself.
C37_ResetAfterOwnSleep ==
    [][\A c \in Threads : ResetPause(c) => sleep_left[c] = 0]_vars


\* ---- C38 ----
\* C38: in the standalone workers the row a worker is about to send, or has
\* sent, is a row whose claim committed: the row it holds carries the claim's
\* mark with no outcome yet, and no row has more API calls recorded on it
\* than claims committed in the run.
C38_CallOnlyAfterCommittedClaim ==
    /\ \A w \in Workers : Holds(w) => ClaimedWithoutOutcome(tickets[ticket_row[w]])
    /\ \A r \in Rows : sent[r] <= claims[r]

\* What holds when BEGIN IMMEDIATE itself meets the lock: the worker has no
\* row, sends nothing and its loop is over.
C38_NoRowNoCall ==
    \A w \in Workers : wpc[w] = "failed" => ticket_row[w] = NoRow


\* ---- C39 ----
\* workers holding a claimed row whose outcome is not counted yet
Holders == {w \in Workers : Holds(w)}

\* the counters against the claims of the run (attempted is iteration_count)
CountersMatchClaims ==
    /\ success_count + failure_count <= iteration_count
    /\ (running /\ FailedWorkers = {}) =>
           success_count + failure_count + Cardinality(Holders) = RowsClaimed
    /\ (running /\ AllWorkersDone /\ FailedWorkers = {}) =>
           success_count + failure_count = RowsClaimed

\* C39: in every state of a run success_count + failure_count is at most
\* iteration_count; while no worker has died every claimed row is either
\* still held by its worker or counted once in one of the two counters; and
\* when all workers are done and none has died, success_count +
\* failure_count is the number of rows the run has claimed.
C39_CountersMatchClaims == runs > 0 => CountersMatchClaims

\* The same for the first run of a processor, whose counters start at zero.
C39_FirstRunCountersMatchClaims == runs = 1 => CountersMatchClaims

====
